---- MODULE Spec2Model ----
(***************************************************************************)
(* Decode-state cache and single-step attention of praxis/layers/          *)
(* attentions.py: DotProductAttention, DotProductAttentionWithLPB and the  *)
(* variants that do not support single-step decoding.                      *)
(*                                                                         *)
(* Tensors are modelled with the batch axis (size 1), the head axis and    *)
(* the per-head axis (size 1) dropped: a decode state of source shape      *)
(* [B, n_1..n_k, T, N, H] is a tensor of shape <<n_1,..,n_k,T>>, so source *)
(* axis a >= 1 is position a of the model's shape, and index tuples are    *)
(* 0-based as in the source.                                               *)
(***************************************************************************)
EXTENDS Integers, Sequences, FiniteSets, TLC

VARIABLES
  cls,                  \* class of the layer instance
  hparams,              \* the layer's HParams
  decode_cache,         \* self.variables[DECODE_CACHE]: name -> tensor
  prefix_decode_cache,  \* self.variables[PREFIX_DECODE_CACHE]: <<name, chunk id>> -> tensor
  call,                 \* the last call made on the layer, with its arguments
  ret,                  \* what that call returned, or the exception it raised
  inputs,               \* the input sequence of the decoding session
  fprop,                \* reference outputs of the same session (full-sequence / per-sample plain decoding)
  theta                 \* self.variables['params']: name -> tensor (the LoRA layers)

vars == <<cls, hparams, decode_cache, prefix_decode_cache, call, ret, inputs, fprop, theta>>

----------------------------------------------------------------------------
(* Bounds of the model *)

MaxLen == 3           \* longest pre-allocated decode state
MaxIn == 1            \* input features range over 0..MaxIn

MaxBroadcasts == 2    \* most lazy_broadcast_prefix calls of a session
MaxBatch == 4         \* most samples a session decodes at once
MaxSeq == 4           \* longest prefix-plus-suffixes sequence of a session

InputVals == 0 .. MaxIn

----------------------------------------------------------------------------
(* Tensors *)

RECURSIVE Idx(_)
Idx(shape) ==
  IF shape = <<>> THEN {<<>>}
  ELSE IF Len(shape) = 1 THEN {<<i>> : i \in 0 .. (shape[1] - 1)}
  ELSE {<<i>> \o r : i \in 0 .. (Head(shape) - 1), r \in Idx(Tail(shape))}

\* jnp.ndarray: an array holds its elements, each computed once when the
\* array is built.
Array(f) == f @@ <<>>

\* jnp.zeros(shape)
Zeros(shape) == [shape |-> shape, data |-> [i \in Idx(shape) |-> 0]]

\* The element type of a decode state: the attention output kept for the
\* ngrammer is a fraction, every other state an integer.
Dtype(name) == IF name = "encoded_pre_ngrammer" THEN "fraction" ELSE "integer"

\* jnp.zeros(shape, dtype)
ZerosOfDtype(shape, dtype) ==
  [shape |-> shape,
   data |-> [i \in Idx(shape) |-> IF dtype = "fraction" THEN [num |-> 0, den |-> 1] ELSE 0]]

Min(a, b) == IF a < b THEN a ELSE b
Max(a, b) == IF a > b THEN a ELSE b

\* jnp.expand_dims(value, axis): a size-1 axis inserted at `axis`.
ExpandDims(x, axis) ==
  LET shape == SubSeq(x.shape, 1, axis - 1) \o <<1>> \o SubSeq(x.shape, axis, Len(x.shape))
      drop(i) == SubSeq(i, 1, axis - 1) \o SubSeq(i, axis + 1, Len(i))
  IN  [shape |-> shape, data |-> Array([i \in Idx(shape) |-> x.data[drop(i)]])]

\* jax.lax.dynamic_update_slice accepts an update only if it has the operand's
\* rank and fits in it.
UpdateFits(operand, update) ==
  /\ Len(update.shape) = Len(operand.shape)
  /\ \A d \in 1 .. Len(operand.shape) : update.shape[d] <= operand.shape[d]

\* jax.lax.dynamic_update_slice: the start indices are clamped so that the
\* update lies inside the operand.
DynamicUpdateSlice(operand, update, indices) ==
  LET rank == Len(operand.shape)
      start == Array([d \in 1 .. rank |->
                  Max(0, Min(indices[d], operand.shape[d] - update.shape[d]))])
      inside(i) == \A d \in 1 .. rank :
                      start[d] <= i[d] /\ i[d] < start[d] + update.shape[d]
      rel(i) == [d \in 1 .. rank |-> i[d] - start[d]]
  IN  [shape |-> operand.shape,
       data |-> Array([i \in Idx(operand.shape) |->
                   IF inside(i) THEN update.data[rel(i)] ELSE operand.data[i]])]

\* extend_decode_state with the update placed one slot late.
ExtendedState_OneSlotLate(cache, name, value, time_step, time_dim) ==
  LET extend_value == ExpandDims(value, time_dim)
      indices == [d \in 1 .. Len(extend_value.shape) |->
                    IF d = time_dim THEN time_step + 1 ELSE 0]
  IN  DynamicUpdateSlice(cache[name], extend_value, indices)

\* DotProductAttention.extend_decode_state: the new value of the state `name`.
ExtendedState(cache, name, value, time_step, time_dim) ==
  LET extend_value == ExpandDims(value, time_dim)
      indices == [d \in 1 .. Len(extend_value.shape) |->
                    IF d = time_dim THEN time_step ELSE 0]
  IN  DynamicUpdateSlice(cache[name], extend_value, indices)

\* A cache that takes the write for the newest step and clears what lies
\* after it.
ExtendDecodeState_ClearsLater(cache, name, value, time_step, time_dim) ==
  LET written == ExtendedState(cache, name, value, time_step, time_dim)
  IN  [cache EXCEPT ![name] =
         [written EXCEPT !.data = [i \in DOMAIN written.data |->
                                     IF i[time_dim] > time_step THEN 0 ELSE written.data[i]]]]

\* DotProductAttention.extend_decode_state: the cache after update_decode_state.
ExtendDecodeState(cache, name, value, time_step, time_dim) ==
  [cache EXCEPT ![name] = ExtendedState(cache, name, value, time_step, time_dim)]

\* A scalar (the [B, N, H] value of one step) as a rank-0 tensor.
Scalar(v) == [shape |-> <<>>, data |-> [i \in Idx(<<>>) |-> v]]

\* The length of a state along its time axis, the last axis of the model.
TimeLen(x) == x.shape[Len(x.shape)]

\* Calls and their outcomes.
NoCall == [op |-> "none"]
NoRet == [kind |-> "none"]
Returned(v) == [kind |-> "value", value |-> v]
Raised(e) == [kind |-> "raise", error |-> e]

----------------------------------------------------------------------------
(* Numbers.  Features, projections and logits are integers; exp is taken   *)
(* to base 2 with a finite range, below which it underflows to 0 as the    *)
(* float32 exp does; attention outputs are exact fractions.                *)

ExpRange == 20

RECURSIVE Pow2(_)
Pow2(n) == IF n <= 0 THEN 1 ELSE 2 * Pow2(n - 1)

Exp2(d) == IF d < -ExpRange THEN 0 ELSE Pow2(ExpRange + d)

RECURSIVE GCD(_, _)
GCD(a, b) == IF b = 0 THEN a ELSE GCD(b, a % b)

Frac(num, den) ==
  LET g == GCD(den, num)
  IN  [num |-> num \div g, den |-> den \div g]

\* A sequence along the time axis: a function on 0 .. L-1.
Length(x) == Cardinality(DOMAIN x)

RECURSIVE SumRange(_, _, _)
SumRange(f, lo, hi) == IF lo >= hi THEN 0 ELSE f[lo] + SumRange(f, lo + 1, hi)

RECURSIVE MaxRange(_, _, _)
MaxRange(f, lo, hi) ==
  IF lo + 1 >= hi THEN f[lo] ELSE Max(f[lo], MaxRange(f, lo + 1, hi))

\* py_utils.get_large_negative_number: finite, far below every logit.
LargeNegative == 0 - 1000000

\* The time row of a state for one index of its leading (sample) axes.
Row(x, idx) == Array([t \in 0 .. (TimeLen(x) - 1) |-> x.data[idx \o <<t>>]])

----------------------------------------------------------------------------
(* Mask builders *)

\* causal_mask with the diagonal forbidden as well.
causal_mask_Strict(T) ==
  [i \in 0 .. (T - 1) |-> [j \in 0 .. (T - 1) |->
     (IF i <= j THEN 1 ELSE 0) * LargeNegative]]

\* causal_mask: entry [i][j] of the [1, 1, T, T] mask.
causal_mask(T) ==
  [i \in 0 .. (T - 1) |-> [j \in 0 .. (T - 1) |->
     (IF i < j THEN 1 ELSE 0) * LargeNegative]]

\* No value given for an optional argument, and a value given for one.
None == [kind |-> "None"]
Some(v) == [kind |-> "given", value |-> v]

\* causal_mask as returned: mask[jnp.newaxis, jnp.newaxis, :, :].
CausalMaskTensor(T) ==
  LET mask == [shape |-> <<T, T>>,
               data |-> [i \in Idx(<<T, T>>) |-> causal_mask(T)[i[1]][i[2]]]]
  IN  ExpandDims(ExpandDims(mask, 1), 1)

\* Broadcasting of two shapes: the shorter one gets leading axes of size 1.
BroadcastShape(s1, s2) ==
  LET rank == Max(Len(s1), Len(s2))
      pad(sh) == [d \in 1 .. rank |->
                    IF d <= rank - Len(sh) THEN 1 ELSE sh[d - (rank - Len(sh))]]
  IN  [d \in 1 .. rank |-> Max(pad(s1)[d], pad(s2)[d])]

\* The element of x that broadcasting puts at index i of the result.
BroadcastAt(x, i) ==
  LET off == Len(i) - Len(x.shape)
  IN  x.data[[d \in 1 .. Len(x.shape) |-> IF x.shape[d] = 1 THEN 0 ELSE i[d + off]]]

\* jnp.minimum
Minimum(a, b) ==
  LET shape == BroadcastShape(a.shape, b.shape)
  IN  [shape |-> shape,
       data |-> Array([i \in Idx(shape) |-> Min(BroadcastAt(a, i), BroadcastAt(b, i))])]

\* a * b on tensors.
Multiply(a, b) ==
  LET shape == BroadcastShape(a.shape, b.shape)
  IN  [shape |-> shape,
       data |-> Array([i \in Idx(shape) |-> BroadcastAt(a, i) * BroadcastAt(b, i)])]

\* jnp.not_equal(...).astype(dtype): 1 where the elements differ.
NotEqual(a, b) ==
  LET shape == BroadcastShape(a.shape, b.shape)
  IN  [shape |-> shape,
       data |-> Array([i \in Idx(shape) |->
                   IF BroadcastAt(a, i) # BroadcastAt(b, i) THEN 1 ELSE 0])]

\* x * py_utils.get_large_negative_number(dtype)
TimesLargeNegative(x) ==
  [shape |-> x.shape, data |-> Array([i \in Idx(x.shape) |-> x.data[i] * LargeNegative])]

\* jnp.transpose(x, axes), axes 0-based as in the source.
Transpose(x, axes) ==
  LET rank == Len(x.shape)
      shape == [d \in 1 .. rank |-> x.shape[axes[d] + 1]]
      from(i) == [d \in 1 .. rank |->
                    i[CHOOSE e \in 1 .. rank : axes[e] + 1 = d]]
  IN  [shape |-> shape, data |-> Array([i \in Idx(shape) |-> x.data[from(i)]])]

\* convert_paddings_to_mask with padded and non-padded positions exchanged.
convert_paddings_to_mask_Inverted(paddings) ==
  LET attention_mask == ExpandDims(ExpandDims(paddings, 2), 2)
  IN  TimesLargeNegative([attention_mask EXCEPT !.data =
                            [i \in DOMAIN attention_mask.data |-> 1 - attention_mask.data[i]]])

\* convert_paddings_to_mask
convert_paddings_to_mask(paddings) ==
  LET attention_mask == ExpandDims(ExpandDims(paddings, 2), 2)
  IN  TimesLargeNegative(attention_mask)

\* segment_mask
segment_mask(segment_ids, source_segment_ids) ==
  LET segment_ids_1 == ExpandDims(segment_ids, Len(segment_ids.shape) + 1)
      segment_ids_2 == IF source_segment_ids # None
                       THEN ExpandDims(source_segment_ids, 2)
                       ELSE ExpandDims(segment_ids, 2)
      mask == ExpandDims(NotEqual(segment_ids_1, segment_ids_2), 2)
  IN  TimesLargeNegative(mask)

\* causal_segment_mask without the causal part.
causal_segment_mask_NotCausal(segment_ids, causal_attention_mask) ==
  segment_mask(segment_ids, None)

\* causal_segment_mask
causal_segment_mask(segment_ids, causal_attention_mask) ==
  LET segment_mask_t == segment_mask(segment_ids, None)
      t == segment_ids.shape[2]
      causal_mask_t == IF causal_attention_mask # None
                       THEN Multiply(CausalMaskTensor(t),
                                     ExpandDims(ExpandDims(causal_attention_mask, 2), 2))
                       ELSE CausalMaskTensor(t)
  IN  Minimum(segment_mask_t, causal_mask_t)

\* limited_context_mask_from_padding with the left limit one position late.
limited_context_mask_from_padding_WideLeft(paddings, left_context, right_context) ==
  LET padding_mask == convert_paddings_to_mask(paddings)
      rev_padding_mask == Transpose(padding_mask, <<0, 1, 3, 2>>)
      t == paddings.shape[2]
      right == IF right_context = None THEN t ELSE right_context.value
      left == IF left_context = None THEN t ELSE left_context.value
      col_idx == [i \in Idx(<<t, t>>) |-> i[2]]
      row_idx == [i \in Idx(<<t, t>>) |-> i[1]]
      mask == [shape |-> <<t, t>>,
               data |-> [i \in Idx(<<t, t>>) |->
                           (IF col_idx[i] + left < row_idx[i]
                               \/ row_idx[i] < col_idx[i] - right
                            THEN 1 ELSE 0) * LargeNegative]]
  IN  Minimum(Minimum(mask, padding_mask), rev_padding_mask)

\* limited_context_mask_from_padding
limited_context_mask_from_padding(paddings, left_context, right_context) ==
  LET padding_mask == convert_paddings_to_mask(paddings)
      rev_padding_mask == Transpose(padding_mask, <<0, 1, 3, 2>>)
      t == paddings.shape[2]
      right == IF right_context = None THEN t ELSE right_context.value
      left == IF left_context = None THEN t ELSE left_context.value
      col_idx == [i \in Idx(<<t, t>>) |-> i[2]]
      row_idx == [i \in Idx(<<t, t>>) |-> i[1]]
      mask == [shape |-> <<t, t>>,
               data |-> [i \in Idx(<<t, t>>) |->
                           (IF col_idx[i] + left <= row_idx[i]
                               \/ row_idx[i] < col_idx[i] - right
                            THEN 1 ELSE 0) * LargeNegative]]
  IN  Minimum(Minimum(mask, padding_mask), rev_padding_mask)

----------------------------------------------------------------------------
(* Projections and position transforms *)

\* theta of the projection layers (learned; any values serve).
Theta ==
  [query |-> [w |-> 1, b |-> 0],
   key   |-> [w |-> 1, b |-> 1],
   value |-> [w |-> 2, b |-> 1],
   combined_qkv |-> [w |-> <<1, 2, 1>>, b |-> <<1, 0, 2>>],
   post  |-> [w |-> 1, b |-> 0]]

\* AttentionProjection.__call__ of the input projections: einsum plus bias.
AttentionProjection(layer, x) == Theta[layer].w * x + Theta[layer].b

\* CombinedQKVProjectionLayer.__call__: K indexes q, k, v in that order.
CombinedQKVProjectionLayer(x) ==
  LET r == [K \in 1 .. 3 |-> Theta.combined_qkv.w[K] * x + Theta.combined_qkv.b[K]]
  IN  [query |-> r[1], key |-> r[2], value |-> r[3]]

\* The projection of one input, of __call__ and of extend_step.
ProjQKV(hp, x) ==
  IF hp.combine_qkv THEN CombinedQKVProjectionLayer(x)
  ELSE [query |-> AttentionProjection("query", x),
        key   |-> AttentionProjection("key", x),
        value |-> AttentionProjection("value", x)]

\* AttentionProjection.__call__ with is_output_projection.
Post(e) == Frac(Theta.post.w * e.num + Theta.post.b * e.den, e.den)

\* DotProductAttention.HParams.dconv_kernel_size
dconv_kernel_size == 3

\* theta.dconv_i: the tap of the current position weighs more than the others.
dconv(i) == IF i = 0 THEN 2 ELSE 1

\* shift_1d padding at the wrong end: a positive offset shifts left.
shift_1d_Reversed(x, offset) ==
  LET L == Length(x)
  IN  IF offset > 0
      THEN Array([t \in 0 .. (L - 1) |-> IF t + offset < L THEN x[t + offset] ELSE 0])
      ELSE Array([t \in 0 .. (L - 1) |-> IF t + offset >= 0 THEN x[t + offset] ELSE 0])

\* shift_1d along the time axis.
shift_1d(x, offset) ==
  LET L == Length(x)
  IN  IF offset > 0
      THEN Array([t \in 0 .. (L - 1) |-> IF t < offset THEN 0 ELSE x[t - offset]])
      ELSE Array([t \in 0 .. (L - 1) |-> IF t - offset < L THEN x[t - offset] ELSE 0])

\* The loop of CausalDepthwiseConv1D.__call__ from tap i on.
RECURSIVE DconvCallLoop(_, _, _, _, _)
DconvCallLoop(kernel_size, x, outputs, segment_pos, i) ==
  IF i >= kernel_size THEN outputs
  ELSE LET shifted == shift_1d(x, 1)
           mask(t) == IF segment_pos = None THEN 1
                      ELSE IF segment_pos.value[t] >= i THEN 1 ELSE 0
       IN  DconvCallLoop(kernel_size, shifted,
                         Array([t \in DOMAIN x |->
                                  outputs[t] + shifted[t] * dconv(i) * mask(t)]),
                         segment_pos, i + 1)

\* CausalDepthwiseConv1D.__call__ of a layer with the given kernel_size.
CausalDepthwiseConv1DCall(kernel_size, x, segment_pos) ==
  DconvCallLoop(kernel_size, x, Array([t \in DOMAIN x |-> x[t] * dconv(0)]), segment_pos, 1)

\* CausalDepthwiseConv1D.__call__ of dconv_q, dconv_k and dconv_v.
CausalDepthwiseConv1D(x, segment_pos) ==
  CausalDepthwiseConv1DCall(dconv_kernel_size, x, segment_pos)

\* jax.lax.dynamic_slice_in_dim with slice_size 1: a negative start counts
\* from the end, and the start is clamped into the axis.
DynamicSliceInDim(x, start) ==
  LET L == Length(x)
      s == IF start < 0 THEN start + L ELSE start
  IN  x[Max(0, Min(s, L - 1))]

\* The loop of CausalDepthwiseConv1D.extend_step from tap i on (use_where).
RECURSIVE DconvStepLoop(_, _, _, _, _)
DconvStepLoop(x, outputs, step, segment_pos, i) ==
  IF i >= dconv_kernel_size THEN outputs
  ELSE LET prev_slice == IF segment_pos - i >= 0
                         THEN DynamicSliceInDim(x, step - i) ELSE 0
       IN  DconvStepLoop(x, outputs + prev_slice * dconv(i), step, segment_pos, i + 1)

\* CausalDepthwiseConv1D.extend_step
CausalDepthwiseConv1D_extend_step(x, step, segment_pos) ==
  DconvStepLoop(x, DynamicSliceInDim(x, step) * dconv(0), step,
                IF segment_pos = None THEN step ELSE segment_pos.value, 1)

\* RotaryPositionalEmbedding.extend_step: a transform that depends on the position.
rotary_position_emb_extend_step(x, position) == x + position

\* RotaryPositionalEmbedding.__call__: positions default to 0 .. T-1.
rotary_position_emb(x, position) ==
  [t \in DOMAIN x |->
     rotary_position_emb_extend_step(x[t], IF position = None THEN t ELSE position.value[t])]

----------------------------------------------------------------------------
(* Core dot-product attention *)

\* DotProductAttention._scale_query with per_dim_scale at its initial value
\* and one dimension per head.
ScaleQuery(q) == q

\* a / b rounded to the nearest integer, halves away from zero (b > 0).
RoundDiv(a, b) ==
  IF a >= 0 THEN (2 * a + b) \div (2 * b) ELSE 0 - ((2 * (0 - a) + b) \div (2 * b))

\* The resolution of tanh: arguments and results are counted in 1/TanhScale.
TanhScale == 8

\* jnp.tanh of n / TanhScale, in units of 1 / TanhScale, to the nearest unit:
\* odd, increasing, below its argument from 5/8 on, and 1 from 14/8 on.
Tanh(n) ==
  LET a == IF n < 0 THEN 0 - n ELSE n
      t == IF a >= 14 THEN TanhScale
           ELSE <<0, 1, 2, 3, 4, 4, 5, 6, 6, 6, 7, 7, 7, 7>>[a + 1]
  IN  IF n < 0 THEN 0 - t ELSE t

\* DotProductAttention._cap_logits on one logit: cap * tanh(logits / cap)
\* when atten_logit_cap is positive, the logit itself otherwise.
cap_logits(atten_logit_cap, logits) ==
  IF atten_logit_cap <= 0 THEN logits
  ELSE RoundDiv(atten_logit_cap * Tanh(RoundDiv(TanhScale * logits, atten_logit_cap)),
                TanhScale)

\* self._cap_logits(logits) of a layer with hyper-parameters hp.
CapLogits(hp, logits) == cap_logits(hp.atten_logit_cap, logits)

\* jax.nn.softmax over the key axis [lo, hi): the weights exp(x - max) and
\* their sum; the probability of key s is w[s] / z.
Softmax(padded_logits, lo, hi) ==
  LET m == MaxRange(padded_logits, lo, hi)
      w == Array([s \in lo .. (hi - 1) |-> Exp2(padded_logits[s] - m)])
  IN  [w |-> w, z |-> SumRange(w, lo, hi)]

\* einsum('BNS,BSNH->BNH', probs, value) over keys [lo, hi) of probs, the
\* value row starting at key lo.
Context(probs, value, lo, hi) ==
  [num |-> SumRange([s \in lo .. (hi - 1) |-> probs.w[s] * value[s - lo]], lo, hi),
   den |-> probs.z]

\* DotProductAttention._dot_atten for one query position t: logits, cap,
\* mask, softmax, weighted sum.
DotAttenAt(hp, query, key, value, atten_mask, t) ==
  LET S == Length(key)
      mask_row == IF Length(atten_mask) = 1 THEN atten_mask[0] ELSE atten_mask[t]
      logits == [s \in 0 .. (S - 1) |-> CapLogits(hp, ScaleQuery(query[t]) * key[s])]
      padded_logits == Array([s \in 0 .. (S - 1) |-> logits[s] + mask_row[s]])
      probs == Softmax(padded_logits, 0, S)
      encoded == Context(probs, value, 0, S)
  IN  [padded_logits |-> padded_logits, probs |-> probs,
       encoded |-> Frac(encoded.num, encoded.den)]

\* DotProductAttention._dot_atten: the encoded sequence.
DotAtten(hp, query, key, value, atten_mask) ==
  Array([t \in DOMAIN query |-> DotAttenAt(hp, query, key, value, atten_mask, t).encoded])

\* _dot_atten_one_step reading the raw key and value states, whatever names
\* it is given.
DotAttenOneStep_RawStates(hp, cache, query, key_state_name, value_state_name, atten_mask) ==
  LET key == Row(cache["key_state"], <<>>)
      value == Row(cache["value_state"], <<>>)
      S == Length(key)
      logits == [s \in 0 .. (S - 1) |-> CapLogits(hp, ScaleQuery(query) * key[s])]
      padded_logits == Array([s \in 0 .. (S - 1) |-> logits[s] + atten_mask[s]])
      probs == Softmax(padded_logits, 0, S)
      encoded == Context(probs, value, 0, S)
  IN  [padded_logits |-> padded_logits, probs |-> probs,
       encoded |-> Frac(encoded.num, encoded.den)]

\* DotProductAttention._dot_atten_one_step on the named states of the cache.
DotAttenOneStep(hp, cache, query, key_state_name, value_state_name, atten_mask) ==
  LET key == Row(cache[key_state_name], <<>>)
      value == Row(cache[value_state_name], <<>>)
      S == Length(key)
      logits == [s \in 0 .. (S - 1) |-> CapLogits(hp, ScaleQuery(query) * key[s])]
      padded_logits == Array([s \in 0 .. (S - 1) |-> logits[s] + atten_mask[s]])
      probs == Softmax(padded_logits, 0, S)
      encoded == Context(probs, value, 0, S)
  IN  [padded_logits |-> padded_logits, probs |-> probs,
       encoded |-> Frac(encoded.num, encoded.den)]

----------------------------------------------------------------------------
(* DotProductAttention: the full-sequence call and the single step *)

\* DotProductAttention.HParams.atten_logit_cap: unset, or a positive cap.
AttenLogitCaps == {0, 1}

HParamsSet ==
  [dconv_qkv : BOOLEAN, use_rotary_position_emb : BOOLEAN, combine_qkv : BOOLEAN,
   atten_logit_cap : AttenLogitCaps, ngrammer_tpl : {"None"}]

\* The same hyper-parameters with an ngrammer layer configured.
WithNgrammer(hp) == [hp EXCEPT !.ngrammer_tpl = "VQNgrammer"]

\* The n-gram embedding the ngrammer adds to an input embedding: it depends
\* on the embedding before it (none at the first position).
NgramEmbedding(prev, cur) == IF prev = cur THEN 0 ELSE 1

\* VQNgrammer.extend_step(cached_inputs, step): the embedding of `step` plus
\* the n-gram embedding of the positions step - 1 and step.
ngrammer_extend_step(input_embs, step) ==
  LET cur == input_embs[step]
      prev == IF step = 0 THEN [num |-> 0, den |-> 1] ELSE input_embs[step - 1]
  IN  Frac(cur.num + NgramEmbedding(prev, cur) * cur.den, cur.den)

\* VQNgrammer.__call__(input_embs): every position as extend_step gives it.
ngrammer(input_embs) ==
  [t \in DOMAIN input_embs |-> ngrammer_extend_step(input_embs, t)]

\* The decode states of a __call__ that keeps no key_post_rotary_pos_emb.
StateNames_NoRotaryKey(hp) ==
  {"key_state", "value_state"}
  \cup (IF hp.dconv_qkv
        THEN {"query_state", "query_post_dconv", "key_post_dconv", "value_post_dconv"}
        ELSE {})
  \cup (IF hp.ngrammer_tpl # "None" THEN {"encoded_pre_ngrammer"} ELSE {})

\* The decode states DotProductAttention.__call__ writes through
\* _fprop_update_decode_state.
StateNames(hp) ==
  {"key_state", "value_state"}
  \cup (IF hp.dconv_qkv
        THEN {"query_state", "query_post_dconv", "key_post_dconv", "value_post_dconv"}
        ELSE {})
  \cup (IF hp.use_rotary_position_emb THEN {"key_post_rotary_pos_emb"} ELSE {})
  \cup (IF hp.ngrammer_tpl # "None" THEN {"encoded_pre_ngrammer"} ELSE {})

\* DotProductAttention.__call__ as self-attention on the sequence x: the
\* encoded sequence and the decode states it writes when DECODE_CACHE is mutable.
Call(hp, x, atten_mask, segment_pos) ==
  LET proj == Array([t \in DOMAIN x |-> ProjQKV(hp, x[t])])
      query_proj == [t \in DOMAIN x |-> proj[t].query]
      key_proj == [t \in DOMAIN x |-> proj[t].key]
      value_proj == [t \in DOMAIN x |-> proj[t].value]
      query_dconv == IF hp.dconv_qkv THEN CausalDepthwiseConv1D(query_proj, segment_pos)
                     ELSE query_proj
      key_dconv == IF hp.dconv_qkv THEN CausalDepthwiseConv1D(key_proj, segment_pos)
                   ELSE key_proj
      value_dconv == IF hp.dconv_qkv THEN CausalDepthwiseConv1D(value_proj, segment_pos)
                     ELSE value_proj
      query_rot == IF hp.use_rotary_position_emb
                   THEN rotary_position_emb(query_dconv, segment_pos) ELSE query_dconv
      key_rot == IF hp.use_rotary_position_emb
                 THEN rotary_position_emb(key_dconv, segment_pos) ELSE key_dconv
      atten == DotAtten(hp, query_rot, key_rot, value_dconv, atten_mask)
      encoded == IF hp.ngrammer_tpl # "None" THEN ngrammer(atten) ELSE atten
      written(name) ==
        CASE name = "key_state" -> key_proj
          [] name = "value_state" -> value_proj
          [] name = "query_state" -> query_proj
          [] name = "query_post_dconv" -> query_dconv
          [] name = "key_post_dconv" -> key_dconv
          [] name = "value_post_dconv" -> value_dconv
          [] name = "key_post_rotary_pos_emb" -> key_rot
          [] name = "encoded_pre_ngrammer" -> atten
  IN  [encoded |-> [t \in DOMAIN x |-> Post(encoded[t])],
       key |-> key_rot,
       value |-> value_dconv,
       states |-> [name \in StateNames(hp) |->
                     [shape |-> <<Length(x)>>,
                      data |-> [i \in Idx(<<Length(x)>>) |-> written(name)[i[1]]]]]]

\* The states extend_step hands to _dot_atten_one_step: key_state_name and
\* value_state_name after the dconv and rotary branches.
KeyStateName(hp) ==
  IF hp.use_rotary_position_emb THEN "key_post_rotary_pos_emb"
  ELSE IF hp.dconv_qkv THEN "key_post_dconv" ELSE "key_state"

ValueStateName(hp) == IF hp.dconv_qkv THEN "value_post_dconv" ELSE "value_state"

\* DotProductAttention.extend_step: the encoded step and the cache it leaves.
ExtendStep(hp, cache, query_vec, atten_mask, time_step, segment_pos) ==
  LET time_dim == 1
      new == ProjQKV(hp, query_vec)
      c1 == ExtendDecodeState(cache, "key_state", Scalar(new.key), time_step, time_dim)
      c2 == ExtendDecodeState(c1, "value_state", Scalar(new.value), time_step, time_dim)
      \* dconv_qkv
      c3 == ExtendDecodeState(c2, "query_state", Scalar(new.query), time_step, time_dim)
      query_dconv == CausalDepthwiseConv1D_extend_step(
                       Row(c3["query_state"], <<>>), time_step, segment_pos)
      key_dconv == CausalDepthwiseConv1D_extend_step(
                     Row(c1["key_state"], <<>>), time_step, segment_pos)
      value_dconv == CausalDepthwiseConv1D_extend_step(
                       Row(c2["value_state"], <<>>), time_step, segment_pos)
      c4 == ExtendDecodeState(c3, "query_post_dconv", Scalar(query_dconv), time_step, time_dim)
      c5 == ExtendDecodeState(c4, "key_post_dconv", Scalar(key_dconv), time_step, time_dim)
      c6 == ExtendDecodeState(c5, "value_post_dconv", Scalar(value_dconv), time_step, time_dim)
      after_dconv == IF hp.dconv_qkv THEN c6 ELSE c2
      q1 == IF hp.dconv_qkv THEN query_dconv ELSE new.query
      k1 == IF hp.dconv_qkv THEN key_dconv ELSE new.key
      \* use_rotary_position_emb
      position == IF segment_pos = None THEN time_step ELSE segment_pos.value
      query_rot == rotary_position_emb_extend_step(q1, position)
      key_rot == rotary_position_emb_extend_step(k1, position)
      c7 == ExtendDecodeState(after_dconv, "key_post_rotary_pos_emb", Scalar(key_rot),
                              time_step, time_dim)
      final == IF hp.use_rotary_position_emb THEN c7 ELSE after_dconv
      q2 == IF hp.use_rotary_position_emb THEN query_rot ELSE q1
      atten == DotAttenOneStep(hp, final, q2, KeyStateName(hp), ValueStateName(hp),
                               atten_mask).encoded
      \* ngrammer_tpl
      c8 == ExtendDecodeState(final, "encoded_pre_ngrammer", Scalar(atten),
                              time_step, time_dim)
      encoded == IF hp.ngrammer_tpl # "None"
                 THEN ngrammer_extend_step(Row(c8["encoded_pre_ngrammer"], <<>>), time_step)
                 ELSE atten
  IN  [encoded |-> Post(encoded),
       key_state_name |-> KeyStateName(hp),
       value_state_name |-> ValueStateName(hp),
       cache |-> IF hp.ngrammer_tpl # "None" THEN c8 ELSE final]

----------------------------------------------------------------------------
(* A decoding session of DotProductAttention: the cache is created by a    *)
(* full-sequence call on some earlier sequence, then the inputs are fed    *)
(* one step at a time, each step with its row of the causal mask.  fprop   *)
(* holds what the full-sequence call returns on the same inputs.           *)

TimeSeqs(T) == [0 .. (T - 1) -> InputVals]

DecodeInit ==
  /\ cls = "DotProductAttention"
  /\ hparams \in HParamsSet
  /\ prefix_decode_cache = <<>>
  /\ call = NoCall
  /\ theta = <<>>
  /\ ret = NoRet
  /\ \E T \in 1 .. MaxLen :
       /\ inputs \in TimeSeqs(T)
       /\ fprop = Call(hparams, inputs, causal_mask(T), None).encoded
       /\ \E earlier \in [0 .. (T - 1) -> {0, MaxIn}] :
            decode_cache = Call(hparams, earlier, causal_mask(T), None).states

NextTimeStep == IF call.op = "extend_step" THEN call.time_step + 1 ELSE 0

CallExtendStep ==
  LET t == NextTimeStep
      T == Length(inputs)
  IN  /\ t < T
      /\ \E r \in {ExtendStep(hparams, decode_cache, inputs[t], causal_mask(T)[t], t, None)} :
           /\ decode_cache' = r.cache
           /\ ret' = Returned(r.encoded)
      /\ call' = [op |-> "extend_step", time_step |-> t]
      /\ UNCHANGED <<cls, hparams, theta, prefix_decode_cache, inputs, fprop>>

DecodeNext == CallExtendStep

SpecDecode == DecodeInit /\ [][DecodeNext]_vars

\* C1: every extend_step of the session returns what the full-sequence call
\* returns at that position, whatever the cache held before the session.
C1_IncrementalDecodingEquivalence ==
  call.op = "extend_step" => ret = Returned(fprop[call.time_step])

----------------------------------------------------------------------------
(* DotProductAttentionWithLPB: lazy prefix broadcast *)

\* The key f'{name}_{chunk_id}_pfx' of PREFIX_DECODE_CACHE.
PfxName(name, chunk_id) == <<name, chunk_id>>

\* The while loop of DotProductAttentionWithLPB._broadcast_prefixes_count.
RECURSIVE CountFrom(_, _)
CountFrom(pfx, count) ==
  IF PfxName("key_state", count) \in DOMAIN pfx THEN CountFrom(pfx, count + 1) ELSE count

\* DotProductAttentionWithLPB._broadcast_prefixes_count
BroadcastPrefixesCount(pfx) == CountFrom(pfx, 0)

\* _broadcast_prefix_length counting only the newest prefix chunk.
BroadcastPrefixLength_NewestChunk(pfx) ==
  LET len == [i \in 0 .. (BroadcastPrefixesCount(pfx) - 1) |->
                pfx[PfxName("key_state", i)].shape[i + 1]]
  IN  SumRange(len, Max(0, BroadcastPrefixesCount(pfx) - 1), BroadcastPrefixesCount(pfx))

\* DotProductAttentionWithLPB._broadcast_prefix_length: chunk i has its time
\* axis at i + 1.
BroadcastPrefixLength(pfx) ==
  LET len == [i \in 0 .. (BroadcastPrefixesCount(pfx) - 1) |->
                pfx[PfxName("key_state", i)].shape[i + 1]]
  IN  SumRange(len, 0, BroadcastPrefixesCount(pfx))

\* DotProductAttentionWithLPB.decoding_state_sequence_length
DecodingStateSequenceLength(cache, pfx) ==
  cache["key_state"].shape[1 + BroadcastPrefixesCount(pfx)] + BroadcastPrefixLength(pfx)

\* lazy_broadcast_prefix storing every chunk under id 0.
LazyBroadcastPrefixChunks_ReuseId(cache, pfx) ==
  LET prev_pfx_count == 0
      added == {PfxName(name, prev_pfx_count) : name \in DOMAIN cache}
  IN  [key \in DOMAIN pfx \cup added |->
         IF key \in added THEN cache[key[1]] ELSE pfx[key]]

\* DotProductAttentionWithLPB.lazy_broadcast_prefix: the new PREFIX_DECODE_CACHE.
LazyBroadcastPrefixChunks(cache, pfx) ==
  LET prev_pfx_count == BroadcastPrefixesCount(pfx)
      added == {PfxName(name, prev_pfx_count) : name \in DOMAIN cache}
  IN  [key \in DOMAIN pfx \cup added |->
         IF key \in added THEN cache[key[1]] ELSE pfx[key]]

\* lazy_broadcast_prefix allocating the suffix with the time axis before the
\* new sample axis.
LazyBroadcastSuffix_TimeFirst(cache, pfx, num_suffix_samples, suffix_length) ==
  LET prev_pfx_count == BroadcastPrefixesCount(pfx)
  IN  [name \in DOMAIN cache |->
         ZerosOfDtype(SubSeq(cache[name].shape, 1, prev_pfx_count)
                        \o <<suffix_length, num_suffix_samples>>
                        \o SubSeq(cache[name].shape, prev_pfx_count + 2,
                                  Len(cache[name].shape)),
                      Dtype(name))]

\* DotProductAttentionWithLPB.lazy_broadcast_prefix: the new DECODE_CACHE.
LazyBroadcastSuffix(cache, pfx, num_suffix_samples, suffix_length) ==
  LET prev_pfx_count == BroadcastPrefixesCount(pfx)
  IN  [name \in DOMAIN cache |->
         ZerosOfDtype(SubSeq(cache[name].shape, 1, prev_pfx_count)
                        \o <<num_suffix_samples, suffix_length>>
                        \o SubSeq(cache[name].shape, prev_pfx_count + 2,
                                  Len(cache[name].shape)),
                      Dtype(name))]

\* DotProductAttentionWithLPB._decode_state_chunk_length
DecodeStateChunkLength(cache, pfx, chunk_id) ==
  LET t_dim == chunk_id + 1
  IN  IF chunk_id = BroadcastPrefixesCount(pfx)
      THEN cache["key_state"].shape[t_dim]
      ELSE pfx[PfxName("key_state", chunk_id)].shape[t_dim]

\* _slice_decode_chunk slicing every chunk from the start of the tensor.
SliceDecodeChunk_FromZero(cache, pfx, chunk_id) ==
  [start |-> 0, limit |-> DecodeStateChunkLength(cache, pfx, chunk_id)]

\* DotProductAttentionWithLPB._slice_decode_chunk: the bounds [start, limit)
\* of the chunk on the time axis of a full-sequence tensor.
SliceDecodeChunk(cache, pfx, chunk_id) ==
  LET n == Min(BroadcastPrefixesCount(pfx), chunk_id)
      len == [i \in 0 .. (n - 1) |-> pfx[PfxName("key_state", i)].shape[i + 1]]
      start == SumRange(len, 0, n)
  IN  [start |-> start, limit |-> start + DecodeStateChunkLength(cache, pfx, chunk_id)]

\* jax.lax.slice_in_dim on the time axis.
SliceInDim(x, start, limit) == Array([s \in 0 .. (limit - start - 1) |-> x[start + s]])

\* jnp.concatenate of two rows along the time axis.
Concatenate(a, b) ==
  Array([s \in 0 .. (Length(a) + Length(b) - 1) |->
     IF s < Length(a) THEN a[s] ELSE b[s - Length(a)]])

\* The state of one chunk as _run_with_all_decode_state_chunks picks it.
ChunkState(cache, pfx, state_name, chunk_id) ==
  IF chunk_id = BroadcastPrefixesCount(pfx) THEN cache[state_name]
  ELSE pfx[PfxName(state_name, chunk_id)]

\* The vmaps handing every sample the first row of each chunk.
ChunkRow_FirstSample(cache, pfx, state_name, chunk_id, idx) ==
  Row(ChunkState(cache, pfx, state_name, chunk_id), [d \in 1 .. chunk_id |-> 0])

\* The row of a chunk that the vmaps of _vmap_on_broadcast_prefixes hand to fn
\* for the sample idx: chunk i carries only the first i sample axes.
ChunkRow(cache, pfx, state_name, chunk_id, idx) ==
  Row(ChunkState(cache, pfx, state_name, chunk_id), SubSeq(idx, 1, chunk_id))

\* _pre_softmax capping the logits after the mask has been added.
PreSoftmax_CapAfterMask(hp, cache, pfx, q, key_state_name, atten_mask, chunk_id, idx) ==
  LET k == ChunkRow(cache, pfx, key_state_name, chunk_id, idx)
      slice == SliceDecodeChunk(cache, pfx, chunk_id)
      am == SliceInDim(atten_mask, slice.start, slice.limit)
  IN  Array([s \in DOMAIN k |-> CapLogits(hp, ScaleQuery(q) * k[s] + am[s])])

\* _pre_softmax of DotProductAttentionWithLPB._dot_atten_one_step on one chunk.
PreSoftmax(hp, cache, pfx, q, key_state_name, atten_mask, chunk_id, idx) ==
  LET k == ChunkRow(cache, pfx, key_state_name, chunk_id, idx)
      slice == SliceDecodeChunk(cache, pfx, chunk_id)
      am == SliceInDim(atten_mask, slice.start, slice.limit)
  IN  Array([s \in DOMAIN k |-> CapLogits(hp, ScaleQuery(q) * k[s]) + am[s]])

\* _concat_logits over the results of chunks chunk_id .. pfx_count, in the
\* order _run_with_all_decode_state_chunks appends them.
RECURSIVE ConcatLogits(_, _, _, _, _, _, _, _)
ConcatLogits(hp, cache, pfx, q, key_state_name, atten_mask, chunk_id, idx) ==
  LET this == PreSoftmax(hp, cache, pfx, q, key_state_name, atten_mask, chunk_id, idx)
  IN  IF chunk_id = BroadcastPrefixesCount(pfx) THEN this
      ELSE Concatenate(this, ConcatLogits(hp, cache, pfx, q, key_state_name, atten_mask,
                                          chunk_id + 1, idx))

\* _post_softmax on one chunk: the probabilities sliced to the chunk, times
\* its values.
PostSoftmax(cache, pfx, probs, value_state_name, chunk_id, idx) ==
  LET v == ChunkRow(cache, pfx, value_state_name, chunk_id, idx)
      slice == SliceDecodeChunk(cache, pfx, chunk_id)
  IN  Context(probs, v, slice.start, slice.limit)

\* sum over the results of chunks chunk_id .. pfx_count.
RECURSIVE SumContexts(_, _, _, _, _, _)
SumContexts(cache, pfx, probs, value_state_name, chunk_id, idx) ==
  LET this == PostSoftmax(cache, pfx, probs, value_state_name, chunk_id, idx)
  IN  IF chunk_id = BroadcastPrefixesCount(pfx) THEN this.num
      ELSE this.num + SumContexts(cache, pfx, probs, value_state_name, chunk_id + 1, idx)

\* DotProductAttentionWithLPB._dot_atten_one_step for the sample idx: the
\* logits fed to softmax, the probabilities and the encoded step.
LPBDotAttenOneStep(hp, cache, pfx, q, key_state_name, value_state_name, atten_mask, idx) ==
  LET padded_logits == ConcatLogits(hp, cache, pfx, q, key_state_name, atten_mask, 0, idx)
      probs == Softmax(padded_logits, 0, Length(padded_logits))
      num == SumContexts(cache, pfx, probs, value_state_name, 0, idx)
  IN  [query |-> q, padded_logits |-> padded_logits, probs |-> probs,
       encoded |-> Frac(num, probs.z)]

\* The loop of DotProductAttentionWithLPB._left_concat_decode_state from its
\* i-th iteration on, for the sample idx: the windows gathered so far grow to
\* the left.
RECURSIVE LeftConcatLoop(_, _, _, _, _, _, _)
LeftConcatLoop(cache, pfx, state_name, idx, windows, prefix_window_size, i) ==
  LET pfx_count == BroadcastPrefixesCount(pfx)
      chunk_id == pfx_count - i - 1
      row == ChunkRow(cache, pfx, state_name, chunk_id, idx)
      pfx_len == Length(row)
      subwindow_len == Min(pfx_len, prefix_window_size)
  IN  IF i >= pfx_count \/ prefix_window_size = 0 THEN windows
      ELSE LeftConcatLoop(cache, pfx, state_name, idx,
                          Concatenate(SliceInDim(row, pfx_len - subwindow_len, pfx_len), windows),
                          prefix_window_size - subwindow_len, i + 1)

\* DotProductAttentionWithLPB._left_concat_decode_state for the sample idx.
LeftConcatDecodeState(cache, pfx, state_name, max_prefix_size, idx) ==
  LeftConcatLoop(cache, pfx, state_name, idx, Row(cache[state_name], idx),
                 max_prefix_size, 0)

\* A per-sample value as the tensor over the sample axes that extend_step
\* hands to extend_decode_state.
Batched(batch_dims, f) == [shape |-> batch_dims, data |-> Array([idx \in Idx(batch_dims) |-> f[idx]])]

\* _extend_decode_state_and_shard with the write placed at time_step itself.
ExtendDecodeStateAndShard_AtTimeStep(cache, pfx, name, extend_value, time_step) ==
  ExtendDecodeState(cache, name, extend_value, time_step,
                    1 + BroadcastPrefixesCount(pfx))

\* _extend_decode_state_and_shard of DotProductAttentionWithLPB.extend_step.
ExtendDecodeStateAndShard(cache, pfx, name, extend_value, time_step) ==
  ExtendDecodeState(cache, name, extend_value, time_step - BroadcastPrefixLength(pfx),
                    1 + BroadcastPrefixesCount(pfx))

\* _dconv reading the live suffix alone, without the prefix window.
LPBDconv_SuffixOnly(cache, pfx, state_name, time_step, segment_pos, idx) ==
  LET prefix_length == BroadcastPrefixLength(pfx)
      ts == time_step - prefix_length
  IN  CausalDepthwiseConv1D_extend_step(Row(cache[state_name], idx), ts, segment_pos)

\* _dconv of DotProductAttentionWithLPB.extend_step for one state and the
\* sample idx.
LPBDconv(cache, pfx, state_name, time_step, segment_pos, idx) ==
  LET prefix_length == BroadcastPrefixLength(pfx)
      left_window_size == Min(dconv_kernel_size - 1, prefix_length)
      ts == time_step - prefix_length + left_window_size
  IN  CausalDepthwiseConv1D_extend_step(
        LeftConcatDecodeState(cache, pfx, state_name, left_window_size, idx),
        ts, segment_pos)

\* The ngrammer refused whatever the number of prefix chunks.
NgrammerUnsupported_AnyCount(hp, pfx_count) == hp.ngrammer_tpl # "None"

\* DotProductAttentionWithLPB.extend_step: the test before the ngrammer runs.
NgrammerUnsupported(hp, pfx_count) == hp.ngrammer_tpl # "None" /\ pfx_count > 0

\* DotProductAttentionWithLPB.extend_step: the encoded step of every sample,
\* what _dot_atten_one_step computed for it, and the cache it leaves.
LPBExtendStep(hp, cache, pfx, query_vec, atten_mask, time_step, segment_pos) ==
  LET batch_dims == SubSeq(cache["key_state"].shape, 1, BroadcastPrefixesCount(pfx))
      samples == Idx(batch_dims)
      new == Array([idx \in samples |-> ProjQKV(hp, query_vec[idx])])
      c1 == ExtendDecodeStateAndShard(cache, pfx, "key_state",
              Batched(batch_dims, [idx \in samples |-> new[idx].key]), time_step)
      c2 == ExtendDecodeStateAndShard(c1, pfx, "value_state",
              Batched(batch_dims, [idx \in samples |-> new[idx].value]), time_step)
      \* dconv_qkv
      c3 == ExtendDecodeStateAndShard(c2, pfx, "query_state",
              Batched(batch_dims, [idx \in samples |-> new[idx].query]), time_step)
      query_dconv == Array([idx \in samples |->
                       LPBDconv(c3, pfx, "query_state", time_step, segment_pos, idx)])
      key_dconv == Array([idx \in samples |->
                     LPBDconv(c3, pfx, "key_state", time_step, segment_pos, idx)])
      value_dconv == Array([idx \in samples |->
                       LPBDconv(c3, pfx, "value_state", time_step, segment_pos, idx)])
      c4 == ExtendDecodeStateAndShard(c3, pfx, "query_post_dconv",
              Batched(batch_dims, query_dconv), time_step)
      c5 == ExtendDecodeStateAndShard(c4, pfx, "key_post_dconv",
              Batched(batch_dims, key_dconv), time_step)
      c6 == ExtendDecodeStateAndShard(c5, pfx, "value_post_dconv",
              Batched(batch_dims, value_dconv), time_step)
      after_dconv == IF hp.dconv_qkv THEN c6 ELSE c2
      q1 == IF hp.dconv_qkv THEN query_dconv ELSE [idx \in samples |-> new[idx].query]
      k1 == IF hp.dconv_qkv THEN key_dconv ELSE [idx \in samples |-> new[idx].key]
      \* use_rotary_position_emb
      position == IF segment_pos = None THEN time_step ELSE segment_pos.value
      query_rot == [idx \in samples |-> rotary_position_emb_extend_step(q1[idx], position)]
      key_rot == [idx \in samples |-> rotary_position_emb_extend_step(k1[idx], position)]
      c7 == ExtendDecodeStateAndShard(after_dconv, pfx, "key_post_rotary_pos_emb",
              Batched(batch_dims, key_rot), time_step)
      final == IF hp.use_rotary_position_emb THEN c7 ELSE after_dconv
      q2 == IF hp.use_rotary_position_emb THEN query_rot ELSE q1
      atten == Array([idx \in samples |->
                 LPBDotAttenOneStep(hp, final, pfx, q2[idx], KeyStateName(hp), ValueStateName(hp),
                                    atten_mask, idx)])
      \* ngrammer_tpl
      pfx_count == BroadcastPrefixesCount(pfx)
      c8 == ExtendDecodeStateAndShard(final, pfx, "encoded_pre_ngrammer",
              Batched(batch_dims, [idx \in samples |-> atten[idx].encoded]), time_step)
      encoded == [idx \in samples |->
                    IF hp.ngrammer_tpl # "None"
                    THEN ngrammer_extend_step(Row(c8["encoded_pre_ngrammer"], idx), time_step)
                    ELSE atten[idx].encoded]
  IN  IF NgrammerUnsupported(hp, pfx_count)
      THEN [error |-> "NotImplementedError"]
      ELSE [error |-> "None",
            encoded |-> [idx \in samples |-> Post(encoded[idx])],
            atten |-> atten,
            cache |-> IF hp.ngrammer_tpl # "None" THEN c8 ELSE final]

----------------------------------------------------------------------------
(* The decode cache on its own: extend_decode_state called with any name,  *)
(* value and time step, in any order.  inputs holds the cache the last     *)
(* call was made on and the call before it.                                *)

BaseStateNames == {"key_state", "value_state"}

CacheInit ==
  /\ cls = "DotProductAttention"
  /\ hparams = [dconv_qkv |-> FALSE, use_rotary_position_emb |-> FALSE, combine_qkv |-> FALSE,
               atten_logit_cap |-> 0, ngrammer_tpl |-> "None"]
  /\ \E T \in 1 .. MaxLen :
       decode_cache \in [BaseStateNames -> [shape : {<<T>>}, data : [Idx(<<T>>) -> {0, MaxIn}]]]
  /\ prefix_decode_cache = <<>>
  /\ call = NoCall
  /\ theta = <<>>
  /\ ret = NoRet
  /\ inputs = <<>>
  /\ fprop = <<>>

\* One call of extend_decode_state(name, value, time_step, time_dim = 1).
CallExtendDecodeState ==
  \E name \in DOMAIN decode_cache, value \in {0, MaxIn}, t \in 0 .. (MaxLen + 1) :
    /\ call' = [op |-> "extend_decode_state", name |-> name, value |-> value,
                time_step |-> t, time_dim |-> 1]
    /\ decode_cache' = ExtendDecodeState(decode_cache, name, Scalar(value), t, 1)
    /\ ret' = Returned(decode_cache'[name])
    /\ inputs' = [cache |-> decode_cache, call |-> call]
    /\ UNCHANGED <<cls, hparams, theta, prefix_decode_cache, fprop>>

CacheNext == CallExtendDecodeState

SpecCache == CacheInit /\ [][CacheNext]_vars

\* C1 witness: a step before the last one, with depth-wise convolution and
\* rotary embedding on, while the next slot of the cache still holds a key
\* other than the one the session will write there.
C1_Witness ==
  /\ call.op = "extend_step"
  /\ call.time_step >= 1
  /\ call.time_step + 1 < Length(inputs)
  /\ hparams.dconv_qkv /\ hparams.use_rotary_position_emb /\ hparams.combine_qkv
  /\ decode_cache["key_state"].data[<<call.time_step + 1>>]
       # ProjQKV(hparams, inputs[call.time_step + 1]).key
  /\ ret = Returned(fprop[call.time_step])

\* C3: an in-range extend_decode_state(name, value, t, time_dim) sets slot t
\* of that state to value, leaves its other slots and every other state as
\* they were, stores the result under the same name and returns it.
C3_ExtendWritesExactlyOneSlot ==
  [][(call'.op = "extend_decode_state"
        /\ call'.time_step < TimeLen(decode_cache[call'.name]))
     => LET name == call'.name
            t == call'.time_step
        IN  /\ DOMAIN decode_cache' = DOMAIN decode_cache
            /\ decode_cache'[name].shape = decode_cache[name].shape
            /\ decode_cache'[name].data[<<t>>] = call'.value
            /\ \A i \in Idx(decode_cache[name].shape) :
                 i # <<t>> => decode_cache'[name].data[i] = decode_cache[name].data[i]
            /\ \A other \in DOMAIN decode_cache \ {name} :
                 decode_cache'[other] = decode_cache[other]
            /\ ret' = Returned(decode_cache'[name])]_vars

\* C3 witness: an in-range write has stored a value in a slot before the
\* last one, and the state holds a different value in another slot.
C3_Witness ==
  /\ call.op = "extend_decode_state"
  /\ call.time_step + 1 < TimeLen(decode_cache[call.name])
  /\ decode_cache[call.name].data[<<call.time_step>>] = call.value
  /\ \E i \in Idx(decode_cache[call.name].shape) :
       decode_cache[call.name].data[i] # call.value
  /\ ret = Returned(decode_cache[call.name])

\* C13: two successive in-range writes to one state leave, when their time
\* steps differ, the cache that the same two writes leave in the opposite
\* order, and, when their time steps are equal, the value of the later one;
\* the second call returns whatever the order of the time steps, and the
\* cache holds nothing but its states.
C13_WritesCommute ==
  [][(/\ call.op = "extend_decode_state"
      /\ call'.op = "extend_decode_state"
      /\ call'.name = call.name
      /\ call.time_step < TimeLen(inputs.cache[call.name])
      /\ call'.time_step < TimeLen(inputs.cache[call.name]))
     => LET name == call.name
            opposite == ExtendDecodeState(
                          ExtendDecodeState(inputs.cache, name, Scalar(call'.value),
                                            call'.time_step, 1),
                          name, Scalar(call.value), call.time_step, 1)
        IN  /\ ret'.kind = "value"
            /\ DOMAIN decode_cache' = DOMAIN inputs.cache
            /\ call'.time_step # call.time_step => decode_cache' = opposite
            /\ call'.time_step = call.time_step
                 => decode_cache'
                      = ExtendDecodeState(inputs.cache, name, Scalar(call'.value),
                                          call'.time_step, 1)]_vars

\* C13 witness: a write to an earlier slot has followed a write of another
\* value to a later slot of the same state, and both values are in place.
C13_Witness ==
  /\ call.op = "extend_decode_state"
  /\ inputs.call.op = "extend_decode_state"
  /\ inputs.call.name = call.name
  /\ call.time_step < inputs.call.time_step
  /\ inputs.call.time_step < TimeLen(decode_cache[call.name])
  /\ inputs.call.value # call.value
  /\ inputs.cache[call.name].data[<<call.time_step>>] # call.value
  /\ decode_cache[call.name].data[<<call.time_step>>] = call.value
  /\ decode_cache[call.name].data[<<inputs.call.time_step>>] = inputs.call.value
  /\ ret = Returned(decode_cache[call.name])

\* C4: a write with time_step at or past the allocated length fails and
\* leaves the cache as it was.
C4_WritePastEndFails ==
  [][(call'.op = "extend_decode_state"
        /\ call'.time_step >= TimeLen(decode_cache[call'.name]))
     => (ret'.kind = "raise" /\ decode_cache' = decode_cache)]_vars

----------------------------------------------------------------------------
(* A decoding session of DotProductAttentionWithLPB.  The cache is created *)
(* by a full-sequence call on the prompt; extend_step and                  *)
(* lazy_broadcast_prefix then follow in any order, every step with the     *)
(* causal row of a mask as long as decoding_state_sequence_length() and    *)
(* one input per sample.  inputs records the session: the prompt length    *)
(* and the arguments of every broadcast.  fprop holds, for every sample, a *)
(* plain DotProductAttention that decodes that sample on its own over one  *)
(* cache as long as the prefix and the suffix together.                    *)

\* The input of sample idx at a time step.
StepInput(seed, time_step, idx) ==
  (seed + time_step + 1 + SumRange([d \in 1 .. Len(idx) |-> idx[d]], 1, Len(idx) + 1))
    % (MaxIn + 1)

\* The prompt the cache is created on.
Prompt(seed, T) == [t \in 0 .. (T - 1) |-> (seed + t) % (MaxIn + 1)]

\* The sample axes of the session, from the recorded broadcasts.
SampleDims(broadcasts) == [d \in 1 .. Len(broadcasts) |-> broadcasts[d].num_suffix_samples]

RECURSIVE Product(_)
Product(dims) == IF dims = <<>> THEN 1 ELSE Head(dims) * Product(Tail(dims))

\* The chunk lengths of the session, oldest first, the live one last.
ChunkLengths(session) ==
  <<session.prompt_length>>
    \o [d \in 1 .. Len(session.broadcasts) |-> session.broadcasts[d].suffix_length]

SessionLength(session) ==
  SumRange(ChunkLengths(session), 1, Len(ChunkLengths(session)) + 1)

\* A plain cache re-allocated with room for suffix_length more steps.
Lengthen(cache, suffix_length) ==
  [name \in DOMAIN cache |->
     [shape |-> <<TimeLen(cache[name]) + suffix_length>>,
      data |-> [i \in Idx(<<TimeLen(cache[name]) + suffix_length>>) |->
                  IF i[1] < TimeLen(cache[name]) THEN cache[name].data[i]
                  ELSE ZerosOfDtype(<<>>, Dtype(name)).data[<<>>]]]]

LPBInit ==
  /\ cls = "DotProductAttentionWithLPB"
  /\ hparams \in {hp \in HParamsSet : ~hp.combine_qkv /\ hp.atten_logit_cap = 0}
  /\ prefix_decode_cache = [key \in {} |-> Zeros(<<1>>)]
  /\ call = NoCall
  /\ theta = <<>>
  /\ ret = NoRet
  /\ \E T \in 1 .. (MaxSeq - 1), seed \in {0, MaxIn} :
       /\ inputs = [seed |-> seed, prompt_length |-> T, broadcasts |-> <<>>]
       /\ decode_cache = Call(hparams, Prompt(seed, T), causal_mask(T), None).states
       /\ fprop = [idx \in Idx(<<>>) |-> [cache |-> decode_cache, encoded |-> NoRet]]

\* The time step the session is at: steps continue where the sequence stands.
LPBNextTimeStep ==
  IF call.op = "extend_step" THEN call.time_step + 1
  ELSE BroadcastPrefixLength(prefix_decode_cache)

CallLazyBroadcastPrefix ==
  \E num_suffix_samples \in 1 .. MaxBatch, suffix_length \in 1 .. MaxSeq :
    /\ Len(inputs.broadcasts) < MaxBroadcasts
    /\ Product(SampleDims(inputs.broadcasts)) * num_suffix_samples <= MaxBatch
    /\ SessionLength(inputs) + suffix_length <= MaxSeq
    /\ prefix_decode_cache' = LazyBroadcastPrefixChunks(decode_cache, prefix_decode_cache)
    /\ decode_cache' = LazyBroadcastSuffix(decode_cache, prefix_decode_cache,
                                           num_suffix_samples, suffix_length)
    /\ call' = [op |-> "lazy_broadcast_prefix", num_suffix_samples |-> num_suffix_samples,
                suffix_length |-> suffix_length]
    /\ ret' = Returned("None")
    /\ inputs' = [inputs EXCEPT !.broadcasts =
                    Append(@, [num_suffix_samples |-> num_suffix_samples,
                               suffix_length |-> suffix_length])]
    /\ fprop' = [idx \in Idx(SampleDims(inputs'.broadcasts)) |->
                   [cache |-> Lengthen(fprop[SubSeq(idx, 1, Len(idx) - 1)].cache, suffix_length),
                    encoded |-> NoRet]]
    /\ UNCHANGED <<cls, hparams, theta>>

CallLPBExtendStep ==
  LET t == LPBNextTimeStep
      S == DecodingStateSequenceLength(decode_cache, prefix_decode_cache)
      samples == Idx(SampleDims(inputs.broadcasts))
      query_vec == [idx \in samples |-> StepInput(inputs.seed, t, idx)]
  IN  /\ t < S
      /\ \E r \in {LPBExtendStep(hparams, decode_cache, prefix_decode_cache, query_vec,
                                  causal_mask(S)[t], t, None)} :
           IF r.error # "None"
           THEN \* the exception ends apply(): no mutated collection is handed back
                /\ decode_cache' = decode_cache
                /\ ret' = Raised(r.error)
           ELSE /\ decode_cache' = r.cache
                /\ ret' = [kind |-> "value", value |-> r.encoded, atten |-> r.atten]
      /\ call' = [op |-> "extend_step", time_step |-> t, query_vec |-> query_vec]
      /\ fprop' = [idx \in samples |->
                     LET plain == ExtendStep(hparams, fprop[idx].cache, query_vec[idx],
                                             causal_mask(S)[t], t, None)
                     IN  [cache |-> plain.cache, encoded |-> Returned(plain.encoded)]]
      /\ UNCHANGED <<cls, hparams, theta, prefix_decode_cache, inputs>>

LPBNext == CallLazyBroadcastPrefix \/ CallLPBExtendStep

SpecLPB == LPBInit /\ [][LPBNext]_vars

\* The same sessions on a layer configured with an ngrammer.
LPBNgrammerInit ==
  /\ cls = "DotProductAttentionWithLPB"
  /\ hparams \in {WithNgrammer(hp) : hp \in {h \in HParamsSet :
                                              ~h.combine_qkv /\ h.atten_logit_cap = 0}}
  /\ prefix_decode_cache = [key \in {} |-> Zeros(<<1>>)]
  /\ call = NoCall
  /\ theta = <<>>
  /\ ret = NoRet
  /\ \E T \in 1 .. (MaxSeq - 1), seed \in {0, MaxIn} :
       /\ inputs = [seed |-> seed, prompt_length |-> T, broadcasts |-> <<>>]
       /\ decode_cache = Call(hparams, Prompt(seed, T), causal_mask(T), None).states
       /\ fprop = [idx \in Idx(<<>>) |-> [cache |-> decode_cache, encoded |-> NoRet]]

SpecLPBNgrammer == LPBNgrammerInit /\ [][LPBNext]_vars

\* C12: with an ngrammer configured, an extend_step after at least one
\* lazy_broadcast_prefix raises NotImplementedError and returns nothing; with
\* no prefix chunk it stores the attention output of the step in
\* encoded_pre_ngrammer, runs the ngrammer on that state and returns what the
\* plain DotProductAttention.extend_step returns.
C12_NgrammerWithPrefixRaises ==
  (call.op = "extend_step" /\ hparams.ngrammer_tpl # "None") =>
    IF BroadcastPrefixesCount(prefix_decode_cache) >= 1
    THEN ret = Raised("NotImplementedError")
    ELSE LET t == call.time_step
             state == Row(decode_cache["encoded_pre_ngrammer"], <<>>)
             prev == IF t = 0 THEN [num |-> 0, den |-> 1] ELSE state[t - 1]
         IN  /\ ret.kind = "value"
             /\ state[t] = ret.atten[<<>>].encoded
             /\ ret.value[<<>>]
                  = Post(Frac(state[t].num + NgramEmbedding(prev, state[t]) * state[t].den,
                              state[t].den))
             /\ Returned(ret.value[<<>>]) = fprop[<<>>].encoded

\* C12 witness: a step after a broadcast has raised on the ngrammer layer,
\* while the plain layer decoding the same sample returned an output that
\* the ngrammer changed.
C12_Witness ==
  /\ call.op = "extend_step"
  /\ hparams.ngrammer_tpl # "None"
  /\ Len(inputs.broadcasts) >= 1
  /\ ret = Raised("NotImplementedError")
  /\ \E idx \in DOMAIN fprop :
       /\ fprop[idx].encoded.kind = "value"
       /\ fprop[idx].encoded.value
            # Post(fprop[idx].cache["encoded_pre_ngrammer"].data[<<call.time_step>>])

\* C2: every extend_step after a lazy broadcast returns, for each sample, what
\* a plain DotProductAttention decoding that sample alone over its prefix and
\* its own suffix returns at the same time step.
C2_LazyBroadcastEquivalence ==
  (call.op = "extend_step" /\ Len(inputs.broadcasts) >= 1) =>
    \A idx \in DOMAIN fprop : Returned(ret.value[idx]) = fprop[idx].encoded

\* C2 witness: a step past the start of a twice-broadcast suffix, with
\* depth-wise convolution and rotary embedding, where two samples get
\* different outputs and each equals its plain decoder's.
C2_Witness ==
  /\ call.op = "extend_step"
  /\ Len(inputs.broadcasts) = 2
  /\ hparams.dconv_qkv /\ hparams.use_rotary_position_emb
  /\ call.time_step > BroadcastPrefixLength(prefix_decode_cache)
  /\ \E i \in DOMAIN fprop, j \in DOMAIN fprop : ret.value[i] # ret.value[j]
  /\ \A idx \in DOMAIN fprop : Returned(ret.value[idx]) = fprop[idx].encoded

\* C5: after at least one broadcast, extend_step(time_step) changes in every
\* cache entry exactly the slots whose index on the last axis (axis 1 + k) is
\* time_step minus the summed prefix chunk lengths, and puts there, for each
\* sample, the state of that sample at time_step: its projected key and
\* value, and for every entry what the sample's plain decoder holds at
\* time_step.
C5_WritesAtSuffixIndex ==
  [][(call'.op = "extend_step" /\ Len(inputs.broadcasts) >= 1) =>
       LET k == Len(inputs.broadcasts)
           at == call'.time_step - SumRange(ChunkLengths(inputs), 1, k + 1)
       IN  /\ DOMAIN decode_cache' = StateNames(hparams)
           /\ \A name \in StateNames(hparams) :
                /\ decode_cache'[name].shape = decode_cache[name].shape
                /\ Len(decode_cache[name].shape) = k + 1
                /\ \A i \in Idx(decode_cache[name].shape) :
                     decode_cache'[name].data[i] =
                       IF i[k + 1] = at
                       THEN fprop'[SubSeq(i, 1, k)].cache[name].data[<<call'.time_step>>]
                       ELSE decode_cache[name].data[i]
           /\ \A idx \in DOMAIN call'.query_vec :
                /\ decode_cache'["key_state"].data[idx \o <<at>>]
                     = ProjQKV(hparams, call'.query_vec[idx]).key
                /\ decode_cache'["value_state"].data[idx \o <<at>>]
                     = ProjQKV(hparams, call'.query_vec[idx]).value
    ]_vars

\* C5 witness: a step at suffix index 1 or later after two broadcasts, with
\* every derived state in the cache, the written slots holding each sample's
\* state and not all of them zero.
C5_Witness ==
  /\ call.op = "extend_step"
  /\ Len(inputs.broadcasts) = 2
  /\ hparams.dconv_qkv /\ hparams.use_rotary_position_emb
  /\ LET at == call.time_step - SumRange(ChunkLengths(inputs), 1, 3)
     IN  /\ at >= 1
         /\ \A name \in StateNames(hparams), idx \in DOMAIN fprop :
              decode_cache[name].data[idx \o <<at>>]
                = fprop[idx].cache[name].data[<<call.time_step>>]
         /\ \E idx \in DOMAIN fprop : decode_cache["key_state"].data[idx \o <<at>>] # 0

\* C6: in every state of a session decoding_state_sequence_length() is the
\* sum of the time lengths of the prefix chunks plus the time length of the
\* live entry, which is the prompt length plus all suffix lengths asked for,
\* and the logits of an extend_step have exactly that many keys.
C6_AttendedLength ==
  LET k == Len(inputs.broadcasts)
      chunk_len == [i \in 0 .. (k - 1) |->
                      TimeLen(prefix_decode_cache[PfxName("key_state", i)])]
      total == SumRange(chunk_len, 0, k) + TimeLen(decode_cache["key_state"])
  IN  /\ DecodingStateSequenceLength(decode_cache, prefix_decode_cache) = total
      /\ total = SessionLength(inputs)
      /\ call.op = "extend_step" =>
           \A idx \in DOMAIN ret.atten :
             DOMAIN ret.atten[idx].padded_logits = 0 .. (total - 1)

\* C6 witness: a step after two broadcasts over chunks of lengths 2, 1, 1.
C6_Witness ==
  /\ call.op = "extend_step"
  /\ ChunkLengths(inputs) = <<2, 1, 1>>
  /\ DecodingStateSequenceLength(decode_cache, prefix_decode_cache) = 4
  /\ \A idx \in DOMAIN ret.atten : DOMAIN ret.atten[idx].padded_logits = 0 .. 3

\* C7: no call removes or changes an entry of PREFIX_DECODE_CACHE; extend_step
\* leaves the whole collection alone; the (k+1)-th lazy_broadcast_prefix adds
\* exactly the entries of id k, one per cache entry, each holding the entry
\* as it was when the call was made, and every older id is smaller than k.
C7_PrefixChunksFrozen ==
  [][/\ \A key \in DOMAIN prefix_decode_cache :
          /\ key \in DOMAIN prefix_decode_cache'
          /\ prefix_decode_cache'[key] = prefix_decode_cache[key]
     /\ call'.op = "extend_step" => prefix_decode_cache' = prefix_decode_cache
     /\ call'.op = "lazy_broadcast_prefix" =>
          LET k == Len(inputs.broadcasts)
          IN  /\ \A key \in DOMAIN prefix_decode_cache : key[2] < k
              /\ DOMAIN prefix_decode_cache' =
                   DOMAIN prefix_decode_cache
                     \cup {PfxName(name, k) : name \in DOMAIN decode_cache}
              /\ \A name \in DOMAIN decode_cache :
                   prefix_decode_cache'[PfxName(name, k)] = decode_cache[name]
    ]_vars

\* C7 witness: a step after two broadcasts, with chunk 1 frozen after it was
\* written and the live entry written since.
C7_Witness ==
  /\ call.op = "extend_step"
  /\ Len(inputs.broadcasts) = 2
  /\ prefix_decode_cache[PfxName("key_state", 0)].shape = <<inputs.prompt_length>>
  /\ prefix_decode_cache[PfxName("key_state", 1)]
       # Zeros(prefix_decode_cache[PfxName("key_state", 1)].shape)
  /\ decode_cache["key_state"] # Zeros(decode_cache["key_state"].shape)

\* C8: after k broadcasts (n_1, L_1) .. (n_k, L_k) on a prompt of length T0
\* the prefix collection holds, for every cache entry, exactly the chunks
\* 0 .. k-1, chunk i of shape <<n_1..n_i, len_i>> with len_0 = T0 and
\* len_i = L_i; the live entry has shape <<n_1..n_k, L_k>> and is all zeros
\* when the broadcast returns; _broadcast_prefixes_count is k.
C8_CacheLayout ==
  LET k == Len(inputs.broadcasts)
      dims == SampleDims(inputs.broadcasts)
      lengths == ChunkLengths(inputs)
  IN  /\ BroadcastPrefixesCount(prefix_decode_cache) = k
      /\ DOMAIN decode_cache = StateNames(hparams)
      /\ DOMAIN prefix_decode_cache
           = {PfxName(name, i) : name \in StateNames(hparams), i \in 0 .. (k - 1)}
      /\ \A name \in StateNames(hparams) :
           /\ \A i \in 0 .. (k - 1) :
                prefix_decode_cache[PfxName(name, i)].shape
                  = SubSeq(dims, 1, i) \o <<lengths[i + 1]>>
           /\ decode_cache[name].shape = dims \o <<lengths[k + 1]>>
           /\ call.op = "lazy_broadcast_prefix" =>
                decode_cache[name] = Zeros(dims \o <<lengths[k + 1]>>)

\* C8 witness: the second broadcast has just returned: prompt of length 2,
\* then (2, 1) and (2, 1).
C8_Witness ==
  /\ call.op = "lazy_broadcast_prefix"
  /\ inputs.prompt_length = 2
  /\ inputs.broadcasts = <<[num_suffix_samples |-> 2, suffix_length |-> 1],
                           [num_suffix_samples |-> 2, suffix_length |-> 1]>>
  /\ BroadcastPrefixesCount(prefix_decode_cache) = 2
  /\ prefix_decode_cache[PfxName("value_state", 0)].shape = <<2>>
  /\ prefix_decode_cache[PfxName("value_state", 1)].shape = <<2, 1>>
  /\ decode_cache["value_state"] = Zeros(<<2, 2, 1>>)

----------------------------------------------------------------------------
(* The variants without single-step decoding: DotProductAttentionXL,       *)
(* LocalSelfAttention and LocalSelfAttentionXL (which inherits the methods *)
(* of LocalSelfAttention).  A call binds its arguments to the method's     *)
(* signature, then runs the body, which builds the message from            *)
(* self.__name__ before it raises.                                         *)

Variants == {"DotProductAttentionXL", "LocalSelfAttention", "LocalSelfAttentionXL"}

\* The signatures of the three methods as the variants define them.
VariantSignature(method) ==
  CASE method = "extend_step" ->
         [positional |-> <<"cached_states", "query_vec">>,
          keyword |-> {"atten_mask", "time_step"}]
    [] method = "init_states" ->
         [positional |-> <<"target_batch_size", "target_max_length">>, keyword |-> {}]
    [] method = "_dot_atten_one_step" ->
         [positional |-> <<"query", "key_state_name", "value_state_name", "atten_mask">>,
          keyword |-> {}]

\* The signature of DotProductAttention.extend_step, which callers of the
\* base class use.
BaseExtendStepSignature ==
  [positional |-> <<"query_vec">>, keyword |-> {"atten_mask", "time_step", "segment_pos"}]

\* What an instance of a variant answers to: its dataclass fields and what
\* the classes define.  __name__ is an attribute of the class object, not of
\* its instances.
InstanceAttributes(class) ==
  {"hparams", "name", "setup", "__call__", "extend_step", "init_states",
   "_dot_atten_one_step", "_dot_atten", "_scale_query", "_cap_logits"}

\* The body of the three methods: the message is formatted with
\* self.__name__, then NotImplementedError is raised with it.
VariantBody(class, method) ==
  IF "__name__" \in InstanceAttributes(class)
  THEN Raised("NotImplementedError")
  ELSE Raised("AttributeError")

\* A call of a method of a variant with the given positional and keyword
\* argument names.
VariantCall(class, method, positional, keyword) ==
  IF /\ Len(positional) = Len(VariantSignature(method).positional)
     /\ keyword = VariantSignature(method).keyword
  THEN VariantBody(class, method)
  ELSE Raised("TypeError")

VariantInit ==
  /\ cls \in Variants
  /\ hparams = [dconv_qkv |-> FALSE, use_rotary_position_emb |-> FALSE, combine_qkv |-> FALSE,
               atten_logit_cap |-> 0, ngrammer_tpl |-> "None"]
  /\ decode_cache = <<>>
  /\ prefix_decode_cache = <<>>
  /\ call = NoCall
  /\ theta = <<>>
  /\ ret = NoRet
  /\ inputs = <<>>
  /\ fprop = <<>>

CallVariantExtendStep ==
  \E query_vec \in InputVals, time_step \in 0 .. (MaxLen - 1),
     signature \in {VariantSignature("extend_step"), BaseExtendStepSignature} :
    /\ call' = [op |-> "extend_step", query_vec |-> query_vec, time_step |-> time_step,
                positional |-> signature.positional, keyword |-> signature.keyword]
    /\ ret' = VariantCall(cls, "extend_step", signature.positional, signature.keyword)
    /\ UNCHANGED <<cls, hparams, theta, decode_cache, prefix_decode_cache, inputs, fprop>>

CallVariantInitStates ==
  \E target_batch_size \in 1 .. MaxBatch, target_max_length \in 1 .. MaxLen :
    /\ call' = [op |-> "init_states", target_batch_size |-> target_batch_size,
                target_max_length |-> target_max_length]
    /\ ret' = VariantCall(cls, "init_states",
                          VariantSignature("init_states").positional, {})
    /\ UNCHANGED <<cls, hparams, theta, decode_cache, prefix_decode_cache, inputs, fprop>>

CallVariantDotAttenOneStep ==
  \E query \in InputVals,
     key_state_name \in {"key_state", "key_post_dconv", "key_post_rotary_pos_emb"},
     value_state_name \in {"value_state", "value_post_dconv"} :
    /\ call' = [op |-> "_dot_atten_one_step", query |-> query,
                key_state_name |-> key_state_name, value_state_name |-> value_state_name]
    /\ ret' = VariantCall(cls, "_dot_atten_one_step",
                          VariantSignature("_dot_atten_one_step").positional, {})
    /\ UNCHANGED <<cls, hparams, theta, decode_cache, prefix_decode_cache, inputs, fprop>>

VariantNext ==
  \/ CallVariantExtendStep
  \/ CallVariantInitStates
  \/ CallVariantDotAttenOneStep

SpecVariant == VariantInit /\ [][VariantNext]_vars

\* C10: every call of extend_step, init_states or _dot_atten_one_step on one
\* of the three variants ends by raising NotImplementedError.
C10_VariantsRaiseNotImplemented ==
  (cls \in Variants /\ call.op \in {"extend_step", "init_states", "_dot_atten_one_step"})
    => ret = Raised("NotImplementedError")

----------------------------------------------------------------------------
(* LocalSelfAttention: block-wise attention with a left and right context. *)
(* Rows are 0-based along time; a blocked row is indexed [u][i] by block   *)
(* and position in the block, a block context [u][c] by block and position *)
(* in the context.                                                         *)

\* _convert_to_block on a time row: blocks of block_size, the last padded.
ConvertToBlock(x, block_size, padding_val) ==
  LET t == Length(x)
      w == block_size
      num_blocks == (t + w - 1) \div w
  IN  Array([u \in 0 .. (num_blocks - 1) |->
        Array([i \in 0 .. (w - 1) |-> IF u * w + i < t THEN x[u * w + i] ELSE padding_val])])

\* jnp.roll along an axis: entry i moves to i + shift, wrapping around.
Roll(x, shift) ==
  LET n == Length(x)
  IN  Array([i \in 0 .. (n - 1) |-> x[(i - shift) % n]])

\* The argument checks of _extract_block_context.
BlockContextArgsOk(block_size, left_context, right_context) ==
  /\ block_size >= 1
  /\ left_context >= 1 /\ left_context <= block_size + 1
  /\ right_context >= 0 /\ right_context <= block_size

\* _extract_block_context on a time row, for arguments that pass its checks.
ExtractBlockContext(x, block_size, left_context, right_context, padding_val) ==
  LET block == ConvertToBlock(x, block_size, padding_val)
      blocks == DOMAIN block
      left_block ==
        IF block_size = left_context - 1 THEN Roll(block, 1)
        ELSE LET x_shift_block == ConvertToBlock(Roll(x, left_context - 1),
                                                 block_size, padding_val)
             IN  [u \in blocks |-> SliceInDim(x_shift_block[u], 0, left_context - 1)]
      with_left == IF left_context > 1
                   THEN [u \in blocks |-> Concatenate(left_block[u], block[u])]
                   ELSE block
      right_block ==
        IF block_size = right_context THEN Roll(block, 0 - 1)
        ELSE LET x_shift_block == ConvertToBlock(Roll(x, 0 - right_context),
                                                 block_size, padding_val)
             IN  [u \in blocks |->
                    SliceInDim(x_shift_block[u], block_size - right_context, block_size)]
  IN  IF right_context > 0
      THEN Array([u \in blocks |-> Concatenate(with_left[u], right_block[u])])
      ELSE Array(with_left)

\* _make_local_mask with the left window one position too wide.
make_local_mask_WideLeft(seq_len, block_size, left_context, right_context) ==
  LET num_blocks == (seq_len + block_size - 1) \div block_size
      context_size == block_size + (left_context - 1) + right_context
      src_positions == [b \in 0 .. (num_blocks - 1) |->
                          [i \in 0 .. (block_size - 1) |-> b * block_size + i]]
      block_start_positions == [b \in 0 .. (num_blocks - 1) |-> b * block_size]
      relative_context_positions == [j \in 0 .. (context_size - 1) |->
                                       j - (left_context - 1)]
      tgt_positions == [b \in 0 .. (num_blocks - 1) |->
                          [j \in 0 .. (context_size - 1) |->
                             block_start_positions[b] + relative_context_positions[j]]]
      position_diff(b, i, j) == src_positions[b][i] - tgt_positions[b][j]
      valid_atten(b, i, j) == (0 - right_context) <= position_diff(b, i, j)
                              /\ position_diff(b, i, j) <= left_context
      valid_src(b, i) == src_positions[b][i] < seq_len
      valid_tgt(b, j) == 0 <= tgt_positions[b][j] /\ tgt_positions[b][j] < seq_len
  IN  Array([b \in 0 .. (num_blocks - 1) |->
        Array([i \in 0 .. (block_size - 1) |->
          Array([j \in 0 .. (context_size - 1) |->
            valid_atten(b, i, j) /\ valid_src(b, i) /\ valid_tgt(b, j)])])])

\* _make_local_mask: element [b][i][j] says whether frame i of block b may
\* attend to frame j of the block's context.
make_local_mask(seq_len, block_size, left_context, right_context) ==
  LET num_blocks == (seq_len + block_size - 1) \div block_size
      context_size == block_size + (left_context - 1) + right_context
      src_positions == [b \in 0 .. (num_blocks - 1) |->
                          [i \in 0 .. (block_size - 1) |-> b * block_size + i]]
      block_start_positions == [b \in 0 .. (num_blocks - 1) |-> b * block_size]
      relative_context_positions == [j \in 0 .. (context_size - 1) |->
                                       j - (left_context - 1)]
      tgt_positions == [b \in 0 .. (num_blocks - 1) |->
                          [j \in 0 .. (context_size - 1) |->
                             block_start_positions[b] + relative_context_positions[j]]]
      position_diff(b, i, j) == src_positions[b][i] - tgt_positions[b][j]
      valid_atten(b, i, j) == (0 - right_context) <= position_diff(b, i, j)
                              /\ position_diff(b, i, j) < left_context
      valid_src(b, i) == src_positions[b][i] < seq_len
      valid_tgt(b, j) == 0 <= tgt_positions[b][j] /\ tgt_positions[b][j] < seq_len
  IN  Array([b \in 0 .. (num_blocks - 1) |->
        Array([i \in 0 .. (block_size - 1) |->
          Array([j \in 0 .. (context_size - 1) |->
            valid_atten(b, i, j) /\ valid_src(b, i) /\ valid_tgt(b, j)])])])

\* LocalSelfAttention._dot_atten on time rows query, key and value of one
\* length; atten_mask has one row or one row per query.
LocalDotAtten(hp, query, key, value, atten_mask, relative_bias) ==
  IF relative_bias # None THEN Raised("NotImplementedError")
  ELSE IF hp.block_size = None THEN Raised("TypeError")
  ELSE IF ~BlockContextArgsOk(hp.block_size.value, hp.left_context, hp.right_context)
  THEN Raised("ValueError")
  ELSE
  LET t == Length(query)
      w == hp.block_size.value
      key_block_context == ExtractBlockContext(key, w, hp.left_context, hp.right_context, 0)
      u == Length(key_block_context)
      c == w + (hp.left_context - 1) + hp.right_context
      query_blocks == ConvertToBlock([i \in DOMAIN query |-> ScaleQuery(query[i])], w, 0)
      minus_inf == LargeNegative
      minus_inf_row == [s \in 0 .. (t - 1) |-> minus_inf]
      mask_block_context ==
        IF Length(atten_mask) = 1
        THEN LET ctx == ExtractBlockContext(atten_mask[0], w, hp.left_context,
                                            hp.right_context, minus_inf)
             IN  [b \in 0 .. (u - 1) |-> [i \in 0 .. (w - 1) |-> ctx[b]]]
        ELSE LET rows == ConvertToBlock(atten_mask, w, minus_inf_row)
             IN  [b \in 0 .. (u - 1) |-> [i \in 0 .. (w - 1) |->
                    ExtractBlockContext(rows[b][i], w, hp.left_context,
                                        hp.right_context, minus_inf)[b]]]
      local_causal_mask == make_local_mask(t, w, hp.left_context, hp.right_context)
      mask == Array([b \in 0 .. (u - 1) |-> Array([i \in 0 .. (w - 1) |->
                Array([j \in 0 .. (c - 1) |->
                  Min(mask_block_context[b][i][j],
                      (1 - (IF local_causal_mask[b][i][j] THEN 1 ELSE 0)) * minus_inf)])])])
      logits == [b \in 0 .. (u - 1) |-> [i \in 0 .. (w - 1) |-> [j \in 0 .. (c - 1) |->
                  CapLogits(hp, query_blocks[b][i] * key_block_context[b][j])]]]
      padded_logits == Array([b \in 0 .. (u - 1) |-> Array([i \in 0 .. (w - 1) |->
                         Array([j \in 0 .. (c - 1) |-> logits[b][i][j] + mask[b][i][j]])])])
      probs == Array([b \in 0 .. (u - 1) |-> Array([i \in 0 .. (w - 1) |->
                 Softmax(padded_logits[b][i], 0, c)])])
      value_block_context == ExtractBlockContext(value, w, hp.left_context,
                                                 hp.right_context, 0)
      encoded == [b \in 0 .. (u - 1) |-> [i \in 0 .. (w - 1) |->
                    Context(probs[b][i], value_block_context[b], 0, c)]]
  IN  Returned([encoded |-> Array([s \in 0 .. (t - 1) |->
                              LET e == encoded[s \div w][s % w]
                              IN  Frac(e.num, e.den)]),
                probs |-> probs,
                padded_logits |-> padded_logits])

----------------------------------------------------------------------------
(* The attention paths on their own: _dot_atten, _dot_atten_one_step and   *)
(* lazy_broadcast_prefix called on a layer whose cache a full-sequence     *)
(* call on the prompt has written (and, for DotProductAttentionWithLPB,    *)
(* one lazy_broadcast_prefix has split).                                   *)

MaxBlock == 2         \* largest block_size of LocalSelfAttention
MaxContext == 2       \* largest left_context - 1 and right_context

AttenClasses == {"DotProductAttention", "DotProductAttentionWithLPB", "LocalSelfAttention"}

\* LocalSelfAttention.HParams: block_size, left_context and right_context
\* on top of the hyper-parameters of DotProductAttention.
LocalHParamsSet ==
  [dconv_qkv : {FALSE}, use_rotary_position_emb : {FALSE}, combine_qkv : {FALSE},
   atten_logit_cap : AttenLogitCaps, ngrammer_tpl : {"None"},
   block_size : {Some(w) : w \in 1 .. MaxBlock}, left_context : 1 .. (MaxContext + 1),
   right_context : 0 .. MaxContext]

\* lazy_broadcast_prefix carried out on the base class as the LPB class
\* carries it out on its live states.
BaseLazyBroadcastPrefix_Broadcasts(cache, num_suffix_samples, suffix_length) ==
  [ret |-> Returned("None"),
   cache |-> LazyBroadcastSuffix(cache, <<>>, num_suffix_samples, suffix_length)]

\* DotProductAttention.lazy_broadcast_prefix: not implemented by the class.
BaseLazyBroadcastPrefix(cache, num_suffix_samples, suffix_length) ==
  [ret |-> Raised("NotImplementedError"), cache |-> cache]

\* A mask of one row shared by all queries, forbidding the keys in `padded`.
PaddingMask(T, padded) ==
  [i \in {0} |-> [j \in 0 .. (T - 1) |-> IF j \in padded THEN LargeNegative ELSE 0]]

\* The masks handed to _dot_atten: the causal mask, or one shared row.
AttenMasks(T) == {causal_mask(T)} \cup {PaddingMask(T, {}), PaddingMask(T, {T - 1})}

AttenInit ==
  /\ cls \in AttenClasses
  /\ hparams \in (IF cls = "LocalSelfAttention" THEN LocalHParamsSet
                  ELSE {hp \in HParamsSet :
                          ~hp.dconv_qkv /\ ~hp.use_rotary_position_emb /\ ~hp.combine_qkv})
  /\ call = NoCall
  /\ theta = <<>>
  /\ ret = NoRet
  /\ fprop = <<>>
  /\ \E T \in 2 .. MaxLen, seed \in InputVals :
       /\ inputs = [seed |-> seed, prompt_length |-> T]
       /\ \E written \in {Call(hparams, Prompt(seed, T), causal_mask(T), None).states} :
            IF cls = "DotProductAttentionWithLPB"
            THEN /\ prefix_decode_cache = LazyBroadcastPrefixChunks(written, <<>>)
                 /\ decode_cache = LazyBroadcastSuffix(written, <<>>, 2, 1)
            ELSE /\ prefix_decode_cache = <<>>
                 /\ decode_cache = written

\* The projected rows of the session's prompt.
PromptProj ==
  LET x == Prompt(inputs.seed, inputs.prompt_length)
  IN  [t \in DOMAIN x |-> ProjQKV(hparams, x[t])]

\* _dot_atten(query, key, value, atten_mask) of DotProductAttention (which
\* DotProductAttentionWithLPB inherits) on the projected prompt.
CallDotAtten ==
  /\ cls \in {"DotProductAttention", "DotProductAttentionWithLPB"}
  /\ \E atten_mask \in AttenMasks(inputs.prompt_length) :
       LET proj == PromptProj
           query == [t \in DOMAIN proj |-> proj[t].query]
           key == [t \in DOMAIN proj |-> proj[t].key]
           value == [t \in DOMAIN proj |-> proj[t].value]
       IN  /\ call' = [op |-> "_dot_atten", query |-> query, key |-> key,
                       atten_mask |-> atten_mask, relative_bias |-> None]
           /\ ret' = Returned([t \in DOMAIN query |->
                                 DotAttenAt(hparams, query, key, value, atten_mask, t)])
  /\ UNCHANGED <<cls, hparams, theta, decode_cache, prefix_decode_cache, inputs, fprop>>

\* _dot_atten_one_step(query, 'key_state', 'value_state', atten_mask) of
\* DotProductAttention on the cache.
CallDotAttenOneStep ==
  /\ cls = "DotProductAttention"
  /\ \E x \in InputVals, time_step \in 0 .. (inputs.prompt_length - 1) :
       LET query == ProjQKV(hparams, x).query
           atten_mask == causal_mask(inputs.prompt_length)[time_step]
       IN  /\ call' = [op |-> "_dot_atten_one_step", query |-> query,
                       key |-> Row(decode_cache["key_state"], <<>>),
                       atten_mask |-> atten_mask, relative_bias |-> None]
           /\ ret' = Returned(DotAttenOneStep(hparams, decode_cache, query,
                                              "key_state", "value_state", atten_mask))
  /\ UNCHANGED <<cls, hparams, theta, decode_cache, prefix_decode_cache, inputs, fprop>>

\* _dot_atten_one_step of DotProductAttentionWithLPB on the prefix chunk and
\* the live suffix, one query per sample.
CallLPBDotAttenOneStep ==
  /\ cls = "DotProductAttentionWithLPB"
  /\ \E x \in InputVals, time_step \in 0 .. inputs.prompt_length :
       LET S == DecodingStateSequenceLength(decode_cache, prefix_decode_cache)
           samples == Idx(<<2>>)
           query == [idx \in samples |-> ProjQKV(hparams, (x + idx[1]) % (MaxIn + 1)).query]
           atten_mask == causal_mask(S)[time_step]
       IN  /\ call' = [op |-> "_dot_atten_one_step", query |-> query,
                       atten_mask |-> atten_mask, relative_bias |-> None]
           /\ ret' = Returned([idx \in samples |->
                        LPBDotAttenOneStep(hparams, decode_cache, prefix_decode_cache,
                                           query[idx], "key_state", "value_state",
                                           atten_mask, idx)])
  /\ UNCHANGED <<cls, hparams, theta, decode_cache, prefix_decode_cache, inputs, fprop>>

\* _dot_atten(query, key, value, atten_mask, relative_bias) of
\* LocalSelfAttention on the projected prompt.
CallLocalDotAtten ==
  /\ cls = "LocalSelfAttention"
  /\ \E atten_mask \in AttenMasks(inputs.prompt_length),
        relative_bias \in {None, Returned(Zeros(<<inputs.prompt_length>>))} :
       LET proj == PromptProj
           query == [t \in DOMAIN proj |-> proj[t].query]
           key == [t \in DOMAIN proj |-> proj[t].key]
           value == [t \in DOMAIN proj |-> proj[t].value]
       IN  /\ call' = [op |-> "_dot_atten", query |-> query, key |-> key,
                       atten_mask |-> atten_mask, relative_bias |-> relative_bias]
           /\ ret' = LocalDotAtten(hparams, query, key, value, atten_mask, relative_bias)
  /\ UNCHANGED <<cls, hparams, theta, decode_cache, prefix_decode_cache, inputs, fprop>>

\* lazy_broadcast_prefix(num_suffix_samples, suffix_length) on the base class.
CallBaseLazyBroadcastPrefix ==
  /\ cls = "DotProductAttention"
  /\ \E num_suffix_samples \in 1 .. MaxBatch, suffix_length \in 1 .. MaxSeq :
       \E r \in {BaseLazyBroadcastPrefix(decode_cache, num_suffix_samples, suffix_length)} :
         /\ call' = [op |-> "lazy_broadcast_prefix",
                     num_suffix_samples |-> num_suffix_samples,
                     suffix_length |-> suffix_length]
         /\ ret' = r.ret
         /\ decode_cache' = r.cache
  /\ UNCHANGED <<cls, hparams, theta, prefix_decode_cache, inputs, fprop>>

AttenNext ==
  \/ CallDotAtten
  \/ CallDotAttenOneStep
  \/ CallLPBDotAttenOneStep
  \/ CallLocalDotAtten
  \/ CallBaseLazyBroadcastPrefix

SpecAtten == AttenInit /\ [][AttenNext]_vars

\* C11: lazy_broadcast_prefix on the base DotProductAttention, and
\* LocalSelfAttention._dot_atten given a relative bias, raise
\* NotImplementedError; nothing is returned and no cache state changes.
C11_UnsupportedFeatureRaises ==
  [][((cls = "DotProductAttention" /\ call'.op = "lazy_broadcast_prefix")
      \/ (cls = "LocalSelfAttention" /\ call'.op = "_dot_atten"
            /\ call'.relative_bias # None))
     => (/\ ret' = Raised("NotImplementedError")
         /\ decode_cache' = decode_cache
         /\ prefix_decode_cache' = prefix_decode_cache)]_vars

\* C11 witness: LocalSelfAttention._dot_atten was given a relative bias with
\* block arguments it accepts, and raised, the cache holding what the
\* full-sequence call wrote.
C11_Witness ==
  /\ cls = "LocalSelfAttention"
  /\ call.op = "_dot_atten"
  /\ call.relative_bias # None
  /\ BlockContextArgsOk(hparams.block_size.value, hparams.left_context,
                        hparams.right_context)
  /\ ret = Raised("NotImplementedError")
  /\ decode_cache["key_state"].data[<<0>>] = ProjQKV(hparams, inputs.seed).key

\* A logit fed to softmax is the capped product plus the mask, and with a
\* cap set a forbidden one is at most cap + large-negative.
CappedThenMasked(padded_logit, product, mask) ==
  /\ padded_logit = cap_logits(hparams.atten_logit_cap, product) + mask
  /\ (hparams.atten_logit_cap > 0 /\ mask = LargeNegative)
       => padded_logit <= hparams.atten_logit_cap + LargeNegative

\* C18: in DotProductAttention._dot_atten and _dot_atten_one_step, in the
\* per-chunk pre-softmax of DotProductAttentionWithLPB and in
\* LocalSelfAttention._dot_atten the logits are capped before the mask is
\* added and not after: every logit fed to softmax is the capped product of
\* query and key plus the mask, so a forbidden position has a logit of at
\* most cap + large-negative.
C18_CapBeforeMask ==
  /\ (call.op = "_dot_atten" /\ cls # "LocalSelfAttention") =>
       \A t \in DOMAIN call.query : \A s \in DOMAIN call.key :
         CappedThenMasked(ret.value[t].padded_logits[s],
                          call.query[t] * call.key[s],
                          call.atten_mask[IF Length(call.atten_mask) = 1 THEN 0 ELSE t][s])
  /\ (call.op = "_dot_atten_one_step" /\ cls = "DotProductAttention") =>
       \A s \in DOMAIN call.key :
         CappedThenMasked(ret.value.padded_logits[s], call.query * call.key[s],
                          call.atten_mask[s])
  /\ (call.op = "_dot_atten_one_step" /\ cls = "DotProductAttentionWithLPB") =>
       LET T == inputs.prompt_length
           key(idx, s) == IF s < T
                          THEN prefix_decode_cache[PfxName("key_state", 0)].data[<<s>>]
                          ELSE decode_cache["key_state"].data[idx \o <<s - T>>]
       IN  \A idx \in DOMAIN ret.value :
             /\ DOMAIN ret.value[idx].padded_logits = 0 .. T
             /\ \A s \in 0 .. T :
                  CappedThenMasked(ret.value[idx].padded_logits[s],
                                   call.query[idx] * key(idx, s), call.atten_mask[s])
  /\ (call.op = "_dot_atten" /\ cls = "LocalSelfAttention" /\ ret.kind = "value") =>
       LET T == inputs.prompt_length
           W == hparams.block_size.value
           L == hparams.left_context
           R == hparams.right_context
           padded_logits == ret.value.padded_logits
           key_block_context == ExtractBlockContext(call.key, W, L, R, 0)
       IN  \A b \in DOMAIN padded_logits : \A i \in 0 .. (W - 1) :
             \A j \in 0 .. (W + L - 1 + R - 1) :
               LET q == b * W + i
                   k == b * W - (L - 1) + j
                   product == IF q < T THEN call.query[q] * key_block_context[b][j] ELSE 0
                   in_window == /\ q < T /\ 0 <= k /\ k < T
                                /\ q - (L - 1) <= k /\ k <= q + R
               IN  \E mask \in {0, LargeNegative} :
                     /\ CappedThenMasked(padded_logits[b][i][j], product, mask)
                     /\ ~in_window => mask = LargeNegative

\* C18 witness: with a cap set, a path fed softmax a forbidden position
\* whose product the cap changed.
C18_Witness ==
  /\ hparams.atten_logit_cap > 0
  /\ call.op = "_dot_atten_one_step"
  /\ cls = "DotProductAttentionWithLPB"
  /\ \E idx \in DOMAIN ret.value : \E s \in DOMAIN call.atten_mask :
       LET product == call.query[idx]
                        * prefix_decode_cache[PfxName("key_state", 0)].data[<<s>>]
       IN  /\ s < inputs.prompt_length
           /\ call.atten_mask[s] = LargeNegative
           /\ cap_logits(hparams.atten_logit_cap, product) # product
           /\ ret.value[idx].padded_logits[s]
                = cap_logits(hparams.atten_logit_cap, product) + LargeNegative


----------------------------------------------------------------------------
(* The mask builders, each applied to binary [B, T] inputs.  inputs holds  *)
(* the one [B, T] array handed in as paddings, as segment_ids or as        *)
(* causal_attention_mask; ret holds the mask returned.                     *)

BatchSizes == {1, 2}

\* left_context and right_context: an integer or None.
ContextArgs == {None} \cup {Some(n) : n \in 0 .. (MaxContext + 1)}

MasksInit ==
  /\ cls = "module"
  /\ hparams = None
  /\ decode_cache = <<>>
  /\ prefix_decode_cache = <<>>
  /\ fprop = <<>>
  /\ call = NoCall
  /\ theta = <<>>
  /\ ret = NoRet
  /\ \E B \in BatchSizes, T \in 1 .. MaxLen :
       \E data \in [Idx(<<B, T>>) -> {0, 1}] :
         inputs = [shape |-> <<B, T>>, data |-> data]

\* The mask builders keep no state: a behaviour makes one call on its input.
CallConvertPaddingsToMask ==
  /\ call = NoCall
  /\ call' = [op |-> "convert_paddings_to_mask", paddings |-> inputs]
  /\ ret' = Returned(convert_paddings_to_mask(inputs))
  /\ UNCHANGED <<cls, hparams, theta, decode_cache, prefix_decode_cache, inputs, fprop>>

\* causal_mask(input_t) with input_t of shape [B, T, D]: only T is read.
CallCausalMask ==
  /\ call = NoCall
  /\ call' = [op |-> "causal_mask", T |-> inputs.shape[2]]
  /\ ret' = Returned(CausalMaskTensor(inputs.shape[2]))
  /\ UNCHANGED <<cls, hparams, theta, decode_cache, prefix_decode_cache, inputs, fprop>>

CallCausalSegmentMask ==
  /\ call = NoCall
  /\ \E causal_attention_mask \in {None, inputs} :
       /\ call' = [op |-> "causal_segment_mask", segment_ids |-> inputs,
                   causal_attention_mask |-> causal_attention_mask]
       /\ ret' = Returned(causal_segment_mask(inputs, causal_attention_mask))
  /\ UNCHANGED <<cls, hparams, theta, decode_cache, prefix_decode_cache, inputs, fprop>>

CallLimitedContextMaskFromPadding ==
  /\ call = NoCall
  /\ \E left_context \in ContextArgs, right_context \in ContextArgs :
       /\ call' = [op |-> "limited_context_mask_from_padding", paddings |-> inputs,
                   left_context |-> left_context, right_context |-> right_context]
       /\ ret' = Returned(limited_context_mask_from_padding(
                            inputs, left_context, right_context))
  /\ UNCHANGED <<cls, hparams, theta, decode_cache, prefix_decode_cache, inputs, fprop>>

MasksNext ==
  \/ CallConvertPaddingsToMask
  \/ CallCausalMask
  \/ CallCausalSegmentMask
  \/ CallLimitedContextMaskFromPadding

SpecMasks == MasksInit /\ [][MasksNext]_vars

\* C14: convert_paddings_to_mask turns binary paddings of shape [B, T] into
\* a mask of shape [B, 1, 1, T] whose entry is 0 where the padding is 0 and
\* the large negative number where the padding is 1.
C14_PaddingsToMask ==
  call.op = "convert_paddings_to_mask" =>
    LET B == call.paddings.shape[1]
        T == call.paddings.shape[2]
        mask == ret.value
    IN  /\ ret.kind = "value"
        /\ mask.shape = <<B, 1, 1, T>>
        /\ DOMAIN mask.data = Idx(<<B, 1, 1, T>>)
        /\ \A b \in 0 .. (B - 1), j \in 0 .. (T - 1) :
             mask.data[<<b, 0, 0, j>>] =
               (IF call.paddings.data[<<b, j>>] = 0 THEN 0 ELSE LargeNegative)

\* C14 witness: a batch of two rows with a padded and a non-padded position
\* was converted.
C14_Witness ==
  /\ call.op = "convert_paddings_to_mask"
  /\ call.paddings.shape[1] = 2
  /\ \E i, j \in DOMAIN call.paddings.data :
       call.paddings.data[i] = 0 /\ call.paddings.data[j] = 1
  /\ ret.kind = "value"
  /\ \E i, j \in DOMAIN ret.value.data :
       ret.value.data[i] = 0 /\ ret.value.data[j] = LargeNegative

\* C15: causal_mask returns a mask of shape [1, 1, T, T] whose entry (i, j)
\* is 0 exactly when j <= i and the large negative number when i < j.
C15_CausalMask ==
  call.op = "causal_mask" =>
    LET T == call.T
        mask == ret.value
    IN  /\ ret.kind = "value"
        /\ mask.shape = <<1, 1, T, T>>
        /\ DOMAIN mask.data = Idx(<<1, 1, T, T>>)
        /\ \A i, j \in 0 .. (T - 1) :
             /\ (mask.data[<<0, 0, i, j>>] = 0) <=> (j <= i)
             /\ (i < j) => mask.data[<<0, 0, i, j>>] = LargeNegative

\* C15 witness: a causal mask over more than one position was built.
C15_Witness ==
  /\ call.op = "causal_mask"
  /\ call.T = MaxLen
  /\ ret.kind = "value"
  /\ ret.value.data[<<0, 0, 0, 1>>] = LargeNegative
  /\ ret.value.data[<<0, 0, 1, 0>>] = 0

\* C16: causal_segment_mask without a causal_attention_mask forbids the pair
\* (i, j) of batch row b exactly when the two positions are in different
\* segments or j > i, and allows every other pair.
C16_CausalSegmentMask ==
  (call.op = "causal_segment_mask" /\ call.causal_attention_mask = None) =>
    LET B == call.segment_ids.shape[1]
        T == call.segment_ids.shape[2]
        mask == ret.value
    IN  /\ ret.kind = "value"
        /\ mask.shape = <<B, 1, T, T>>
        /\ DOMAIN mask.data = Idx(<<B, 1, T, T>>)
        /\ \A b \in 0 .. (B - 1), i, j \in 0 .. (T - 1) :
             mask.data[<<b, 0, i, j>>] =
               (IF call.segment_ids.data[<<b, i>>] # call.segment_ids.data[<<b, j>>]
                   \/ j > i
                THEN LargeNegative ELSE 0)

\* C16 witness: the mask was built for a row with two segments; an earlier
\* position of the other segment is forbidden, one of the same segment is
\* allowed.
C16_Witness ==
  /\ call.op = "causal_segment_mask"
  /\ call.causal_attention_mask = None
  /\ ret.kind = "value"
  /\ \E b \in 0 .. (call.segment_ids.shape[1] - 1) :
       \E i, j, k \in 0 .. (call.segment_ids.shape[2] - 1) :
         /\ j < i /\ k < i
         /\ call.segment_ids.data[<<b, i>>] # call.segment_ids.data[<<b, j>>]
         /\ call.segment_ids.data[<<b, i>>] = call.segment_ids.data[<<b, k>>]
         /\ ret.value.data[<<b, 0, i, j>>] = LargeNegative
         /\ ret.value.data[<<b, 0, i, k>>] = 0

\* C17: limited_context_mask_from_padding forbids every key position j
\* outside the window [i - left_context + 1, i + right_context] of query
\* position i, forbids every pair with a padded query or key position, and
\* allows every pair of non-padded positions inside the window; a context
\* of None puts no limit on that side.
C17_LimitedContextMask ==
  call.op = "limited_context_mask_from_padding" =>
    LET B == call.paddings.shape[1]
        T == call.paddings.shape[2]
        mask == ret.value
        inside(i, j) ==
          /\ call.left_context = None \/ j >= i - call.left_context.value + 1
          /\ call.right_context = None \/ j <= i + call.right_context.value
        padded(b, i, j) ==
          call.paddings.data[<<b, i>>] = 1 \/ call.paddings.data[<<b, j>>] = 1
    IN  /\ ret.kind = "value"
        /\ mask.shape = <<B, 1, T, T>>
        /\ DOMAIN mask.data = Idx(<<B, 1, T, T>>)
        /\ \A b \in 0 .. (B - 1), i, j \in 0 .. (T - 1) :
             mask.data[<<b, 0, i, j>>] =
               (IF inside(i, j) /\ ~padded(b, i, j) THEN 0 ELSE LargeNegative)

\* C17 witness: with left_context 2 and no right limit, a non-padded row of
\* three positions has position 0 forbidden for query 2 and positions 1 and
\* 2 allowed, and a padded key is forbidden inside the window of another row.
C17_Witness ==
  /\ call.op = "limited_context_mask_from_padding"
  /\ call.left_context = Some(2)
  /\ call.right_context = None
  /\ call.paddings.shape = <<2, 3>>
  /\ \A j \in 0 .. 2 : call.paddings.data[<<0, j>>] = 0
  /\ call.paddings.data[<<1, 1>>] = 1
  /\ ret.kind = "value"
  /\ ret.value.data[<<0, 0, 2, 0>>] = LargeNegative
  /\ ret.value.data[<<0, 0, 2, 1>>] = 0
  /\ ret.value.data[<<0, 0, 2, 2>>] = 0
  /\ ret.value.data[<<0, 0, 0, 2>>] = 0
  /\ ret.value.data[<<1, 0, 2, 1>>] = LargeNegative

----------------------------------------------------------------------------
(* _make_local_mask on its own: inputs holds the arguments, ret the mask.  *)

LocalMaskInit ==
  /\ cls = "module"
  /\ hparams = None
  /\ decode_cache = <<>>
  /\ prefix_decode_cache = <<>>
  /\ fprop = <<>>
  /\ call = NoCall
  /\ theta = <<>>
  /\ ret = NoRet
  /\ inputs \in [seq_len : 1 .. (MaxLen + 1), block_size : 1 .. (MaxBlock + 1),
                 left_context : 1 .. (MaxContext + 1), right_context : 0 .. MaxContext]

CallMakeLocalMask ==
  /\ call' = [op |-> "_make_local_mask"]
  /\ ret' = Returned(make_local_mask(inputs.seq_len, inputs.block_size,
                                     inputs.left_context, inputs.right_context))
  /\ UNCHANGED <<cls, hparams, theta, decode_cache, prefix_decode_cache, inputs, fprop>>

LocalMaskNext ==
  \/ CallMakeLocalMask

SpecLocalMask == LocalMaskInit /\ [][LocalMaskNext]_vars

\* C20: _make_local_mask(T, W, L, R) returns a boolean tensor of shape
\* [ceil(T / W), W, W + L - 1 + R] whose element (b, i, j) is true exactly
\* when, with q = b * W + i and k = b * W - (L - 1) + j, q < T, 0 <= k < T
\* and q - (L - 1) <= k <= q + R.
C20_LocalMask ==
  call.op = "_make_local_mask" =>
    LET T == inputs.seq_len
        W == inputs.block_size
        L == inputs.left_context
        R == inputs.right_context
        U == CHOOSE n \in 1 .. T : (n - 1) * W < T /\ T <= n * W
        mask == ret.value
    IN  /\ ret.kind = "value"
        /\ DOMAIN mask = 0 .. (U - 1)
        /\ \A b \in 0 .. (U - 1) :
             /\ DOMAIN mask[b] = 0 .. (W - 1)
             /\ \A i \in 0 .. (W - 1) :
                  /\ DOMAIN mask[b][i] = 0 .. (W + L - 1 + R - 1)
                  /\ \A j \in 0 .. (W + L - 1 + R - 1) :
                       LET q == b * W + i
                           k == b * W - (L - 1) + j
                       IN  /\ mask[b][i][j] \in BOOLEAN
                           /\ mask[b][i][j] <=>
                                (/\ q < T /\ 0 <= k /\ k < T
                                 /\ q - (L - 1) <= k /\ k <= q + R)

\* C20 witness: the mask of the source's example (T = 4, W = 2, L = 3,
\* R = 0) was built; the first query of the second block sees its own key
\* and the two before it and not the one after.
C20_Witness ==
  /\ call.op = "_make_local_mask"
  /\ inputs = [seq_len |-> 4, block_size |-> 2, left_context |-> 3, right_context |-> 0]
  /\ ret.kind = "value"
  /\ ret.value[1][0] = [j \in 0 .. 3 |-> j < 3]
  /\ ret.value[0][0] = [j \in 0 .. 3 |-> j = 2]

----------------------------------------------------------------------------
(* _cap_logits on its own: inputs holds a logit, hparams the cap; the      *)
(* method is applied to the logit, and again to what it returned.          *)

MaxLogit == 16        \* logits range over -MaxLogit .. MaxLogit

\* atten_logit_cap: negative, 0.0 (the default), and positive caps.
CapLogitsCaps == {0 - 8, 0, 1, 8}

CapLogitsInit ==
  /\ cls = "DotProductAttention"
  /\ hparams \in [atten_logit_cap : CapLogitsCaps]
  /\ decode_cache = <<>>
  /\ prefix_decode_cache = <<>>
  /\ fprop = <<>>
  /\ call = NoCall
  /\ theta = <<>>
  /\ ret = NoRet
  /\ inputs \in [logits : (0 - MaxLogit) .. MaxLogit]

\* self._cap_logits(logits)
CallCapLogits ==
  /\ call' = [op |-> "_cap_logits", logits |-> inputs.logits, again |-> FALSE]
  /\ ret' = Returned(CapLogits(hparams, inputs.logits))
  /\ UNCHANGED <<cls, hparams, theta, decode_cache, prefix_decode_cache, inputs, fprop>>

\* self._cap_logits applied to the result of the last application.
CallCapLogitsAgain ==
  /\ ret.kind = "value"
  /\ call' = [op |-> "_cap_logits", logits |-> ret.value, again |-> TRUE]
  /\ ret' = Returned(CapLogits(hparams, ret.value))
  /\ UNCHANGED <<cls, hparams, theta, decode_cache, prefix_decode_cache, inputs, fprop>>

CapLogitsNext ==
  \/ CallCapLogits
  \/ CallCapLogitsAgain

SpecCapLogits == CapLogitsInit /\ [][CapLogitsNext]_vars

\* C19: _cap_logits is idempotent: applied to a value it returned, it
\* returns that value again, for every logit and every atten_logit_cap; and
\* for a cap <= 0 it returns its argument.
C19_CapLogitsIdempotent ==
  call.op = "_cap_logits" =>
    /\ call.again => ret.value = call.logits
    /\ hparams.atten_logit_cap <= 0 => ret.value = call.logits

----------------------------------------------------------------------------
(* LocalSelfAttention._dot_atten on its own, on the projected prompt, for  *)
(* sequence lengths that are and are not multiples of the block size and   *)
(* with block_size set or left unset.                                      *)

\* LocalSelfAttention.HParams with block_size None (the default) or set.
LocalHParamsWide ==
  [dconv_qkv : {FALSE}, use_rotary_position_emb : {FALSE}, combine_qkv : {FALSE},
   atten_logit_cap : {0}, ngrammer_tpl : {"None"},
   block_size : {None} \cup {Some(w) : w \in 1 .. (MaxBlock + 1)},
   left_context : 1 .. (MaxContext + 2),
   right_context : 0 .. (MaxContext + 1)]

LocalInit ==
  /\ cls = "LocalSelfAttention"
  /\ hparams \in LocalHParamsWide
  /\ decode_cache = <<>>
  /\ prefix_decode_cache = <<>>
  /\ fprop = <<>>
  /\ call = NoCall
  /\ theta = <<>>
  /\ ret = NoRet
  /\ inputs \in [seed : InputVals, prompt_length : 1 .. (MaxLen + 1)]

LocalNext ==
  \/ CallLocalDotAtten

SpecLocal == LocalInit /\ [][LocalNext]_vars

\* The [T, T] mask that allows query i the keys i - L + 1 .. i + R.
WindowMask(T, L, R) ==
  [i \in 0 .. (T - 1) |-> [j \in 0 .. (T - 1) |->
     IF i - L + 1 <= j /\ j <= i + R THEN 0 ELSE LargeNegative]]

\* C21: with an all-zero atten_mask, for every T, block_size W, left_context
\* L in [1, W + 1] and right_context R in [0, W], LocalSelfAttention gives
\* query position i non-masked logits exactly for the keys j with
\* max(0, i - L + 1) <= j <= min(T - 1, i + R), each computed from the key
\* and value of position j, and the output has length T.
C21_WindowIndependentOfBlockSize ==
  (/\ call.op = "_dot_atten" /\ cls = "LocalSelfAttention"
   /\ call.relative_bias = None
   /\ call.atten_mask = PaddingMask(inputs.prompt_length, {})
   /\ hparams.block_size # None
   /\ BlockContextArgsOk(hparams.block_size.value, hparams.left_context,
                         hparams.right_context)) =>
    LET T == inputs.prompt_length
        W == hparams.block_size.value
        L == hparams.left_context
        R == hparams.right_context
        proj == PromptProj
        value == [t \in DOMAIN proj |-> proj[t].value]
    IN  /\ ret.kind = "value"
        /\ DOMAIN ret.value.encoded = 0 .. (T - 1)
        /\ \A q \in 0 .. (T - 1) :
             /\ \A j \in 0 .. (W + L - 1 + R - 1) :
                  LET b == q \div W
                      k == b * W - (L - 1) + j
                      logit == ret.value.padded_logits[b][q % W][j]
                  IN  IF Max(0, q - L + 1) <= k /\ k <= Min(T - 1, q + R)
                      THEN logit = CapLogits(hparams, call.query[q] * call.key[k])
                      ELSE logit <= LargeNegative \div 2
             /\ ret.value.encoded[q]
                  = DotAttenAt(hparams, call.query, call.key, value,
                               WindowMask(T, L, R), q).encoded

\* C25: when block_size is left unset (None), _dot_atten behaves as with
\* block_size = max(1, left_context - 1).
C25_DefaultBlockSize ==
  (call.op = "_dot_atten" /\ call.relative_bias = None /\ hparams.block_size = None) =>
    LET proj == PromptProj
        value == [t \in DOMAIN proj |-> proj[t].value]
        block_size == Max(1, hparams.left_context - 1)
    IN  ret = LocalDotAtten([hparams EXCEPT !.block_size = Some(block_size)],
                            call.query, call.key, value, call.atten_mask, None)

----------------------------------------------------------------------------
(* ChunkedCrossAttention.  A query is a time row of features, the          *)
(* neighbors are indexed [chunk][neighbor][position]; the batch axis is    *)
(* dropped.  inputs holds the query and the neighbors, ret the output, a   *)
(* row of fractions.                                                       *)

MaxChunks == 2        \* most chunks of a query
MaxNeighbors == 2     \* most neighbors of a chunk, and their greatest length

\* theta.wrb of RelativeBias, by bucket (learned; any values serve).
Wrb == <<1, 0, 2>>

\* RelativeBias._relative_position_bucket with three buckets: the key is
\* before, at or after the query.
relative_position_bucket(relative_position) ==
  IF relative_position < 0 THEN 1 ELSE IF relative_position = 0 THEN 2 ELSE 3

\* RelativeBias.__call__ for one query and one key position.
RelativeBias(query_segment_pos, key_segment_pos) ==
  Wrb[relative_position_bucket(key_segment_pos - query_segment_pos)]

\* DotProductAttention._dot_atten with a relative bias, for the query
\* position t: logits, bias, cap, mask, softmax, weighted sum.
DotAttenBiasAt(hp, query, key, value, atten_mask, relative_bias, t) ==
  LET S == Length(key)
      mask_row == IF Length(atten_mask) = 1 THEN atten_mask[0] ELSE atten_mask[t]
      logits == [s \in 0 .. (S - 1) |->
                   CapLogits(hp, ScaleQuery(query[t]) * key[s] + relative_bias[t][s])]
      padded_logits == Array([s \in 0 .. (S - 1) |-> logits[s] + mask_row[s]])
      probs == Softmax(padded_logits, 0, S)
      encoded == Context(probs, value, 0, S)
  IN  Frac(encoded.num, encoded.den)

\* DotProductAttention.__call__ as ChunkedCrossAttention calls it: separate
\* query and key inputs, the value input being the key input, segment
\* positions given, a relative bias and no cache.
CrossDotProductAttention(hp, query_vec, key_vec, atten_mask, query_segment_pos, key_segment_pos) ==
  LET query_proj == [t \in DOMAIN query_vec |-> AttentionProjection("query", query_vec[t])]
      key_proj == [s \in DOMAIN key_vec |-> AttentionProjection("key", key_vec[s])]
      value_proj == [s \in DOMAIN key_vec |-> AttentionProjection("value", key_vec[s])]
      relative_bias == [t \in DOMAIN query_vec |-> [s \in DOMAIN key_vec |->
                          RelativeBias(query_segment_pos[t], key_segment_pos[s])]]
  IN  Array([t \in DOMAIN query_vec |->
        Post(DotAttenBiasAt(hp, query_proj, key_proj, value_proj, atten_mask,
                            relative_bias, t))])

\* ChunkedCrossAttention._cross_atten on one chunk and its neighbors.
cross_atten(hp, chunk, neighbors) ==
  LET m == Length(chunk)
      k == Length(neighbors)
      r == Length(neighbors[0])
      key_segment_pos == [s \in 0 .. (k * r - 1) |-> s % r]
      key_vec == [s \in 0 .. (k * r - 1) |-> neighbors[s \div r][s % r]]
      atten_mask == [i \in {0} |-> [s \in 0 .. (k * r - 1) |-> 0]]
      query_segment_pos == [i \in 0 .. (m - 1) |-> i]
  IN  CrossDotProductAttention(hp, chunk, key_vec, atten_mask,
                               query_segment_pos, key_segment_pos)

\* ChunkedCrossAttention.__call__ with every chunk attending to the
\* neighbors of the first chunk.
ChunkedCrossAttention_FirstNeighbors(hp, query, neighbors) ==
  LET t == Length(query)
      l == Length(neighbors)
  IN  IF t % l # 0 THEN Raised("ValueError")
      ELSE
      LET m == t \div l
          shifted == SliceInDim(query, m - 1, t)
          padded == [p \in 0 .. (t - 1) |-> IF p < Length(shifted) THEN shifted[p] ELSE 0]
          attending_chunks == [c \in 0 .. (l - 1) |-> [i \in 0 .. (m - 1) |-> padded[c * m + i]]]
          chunked == Array([c \in 0 .. (l - 1) |->
                       cross_atten(hp, attending_chunks[c], neighbors[0])])
          chunked_output == [p \in 0 .. (l * m - 1) |-> chunked[p \div m][p % m]]
          identity == [p \in 0 .. (m - 2) |-> Frac(query[p], 1)]
          joined_output == Concatenate(identity, chunked_output)
      IN  Returned(SliceInDim(joined_output, 0, t))

\* ChunkedCrossAttention.__call__
ChunkedCrossAttention(hp, query, neighbors) ==
  LET t == Length(query)
      l == Length(neighbors)
  IN  IF t % l # 0 THEN Raised("ValueError")
      ELSE
      LET m == t \div l
          shifted == SliceInDim(query, m - 1, t)
          padded == [p \in 0 .. (t - 1) |-> IF p < Length(shifted) THEN shifted[p] ELSE 0]
          attending_chunks == [c \in 0 .. (l - 1) |-> [i \in 0 .. (m - 1) |-> padded[c * m + i]]]
          chunked == Array([c \in 0 .. (l - 1) |->
                       cross_atten(hp, attending_chunks[c], neighbors[c])])
          chunked_output == [p \in 0 .. (l * m - 1) |-> chunked[p \div m][p % m]]
          identity == [p \in 0 .. (m - 2) |-> Frac(query[p], 1)]
          joined_output == Concatenate(identity, chunked_output)
      IN  Returned(SliceInDim(joined_output, 0, t))

\* The neighbors of the chunks: chunk c holds the values (seed[c] + k + r)
\* mod (MaxIn + 1).
Neighbors(seed, K, R) ==
  [c \in DOMAIN seed |-> [k \in 0 .. (K - 1) |-> [r \in 0 .. (R - 1) |->
     (seed[c] + k + r) % (MaxIn + 1)]]]

ChunkedInit ==
  /\ cls = "ChunkedCrossAttention"
  /\ hparams \in {hp \in HParamsSet :
                    ~hp.dconv_qkv /\ ~hp.use_rotary_position_emb /\ ~hp.combine_qkv}
  /\ decode_cache = <<>>
  /\ prefix_decode_cache = <<>>
  /\ fprop = <<>>
  /\ call = NoCall
  /\ theta = <<>>
  /\ ret = NoRet
  /\ \E T \in 1 .. (MaxLen + 1), L \in 1 .. MaxChunks, K \in 1 .. MaxNeighbors,
        R \in 1 .. MaxNeighbors, qseed \in InputVals :
       \E nseed \in [0 .. (L - 1) -> InputVals] :
         inputs = [query |-> Prompt(qseed, T), neighbors |-> Neighbors(nseed, K, R)]

CallChunkedCrossAttention ==
  /\ call' = [op |-> "__call__"]
  /\ ret' = ChunkedCrossAttention(hparams, inputs.query, inputs.neighbors)
  /\ UNCHANGED <<cls, hparams, theta, decode_cache, prefix_decode_cache, inputs, fprop>>

ChunkedNext ==
  \/ CallChunkedCrossAttention

SpecChunked == ChunkedInit /\ [][ChunkedNext]_vars

\* C22: for a query of length T = L * M with L chunks of length M, the
\* output has length T; output position p < M - 1 is the query at p; and
\* output position p >= M - 1 is the attention output of the query at p, at
\* position (p - (M - 1)) mod M of its chunk, against the neighbors of chunk
\* (p - (M - 1)) div M alone under an all-zero mask.
C22_ChunkedCrossAttention ==
  (call.op = "__call__" /\ cls = "ChunkedCrossAttention"
   /\ Length(inputs.query) % Length(inputs.neighbors) = 0) =>
    LET T == Length(inputs.query)
        L == Length(inputs.neighbors)
        M == T \div L
        K == Length(inputs.neighbors[0])
        R == Length(inputs.neighbors[0][0])
        attended(p) ==
          LET c == (p - (M - 1)) \div M
              i == (p - (M - 1)) % M
              key == [s \in 0 .. (K * R - 1) |->
                        AttentionProjection("key", inputs.neighbors[c][s \div R][s % R])]
              value == [s \in 0 .. (K * R - 1) |->
                          AttentionProjection("value", inputs.neighbors[c][s \div R][s % R])]
              logits == [s \in 0 .. (K * R - 1) |->
                           CapLogits(hparams,
                                     AttentionProjection("query", inputs.query[p]) * key[s]
                                       + RelativeBias(i, s % R))]
              probs == Softmax(logits, 0, K * R)
              encoded == Context(probs, value, 0, K * R)
          IN  Post(Frac(encoded.num, encoded.den))
    IN  /\ ret.kind = "value"
        /\ DOMAIN ret.value = 0 .. (T - 1)
        /\ \A p \in 0 .. (T - 1) :
             IF p < M - 1 THEN ret.value[p] = Frac(inputs.query[p], 1)
             ELSE ret.value[p] = attended(p)

\* C22 witness: a query of two chunks of length two whose neighbors differ
\* was attended; position 0 passed through and the last position, of the
\* second chunk, differs from what the first chunk's neighbors would give.
C22_Witness ==
  /\ call.op = "__call__" /\ cls = "ChunkedCrossAttention"
  /\ Length(inputs.query) = 4
  /\ Length(inputs.neighbors) = 2
  /\ inputs.neighbors[0] # inputs.neighbors[1]
  /\ ret.kind = "value"
  /\ ret.value[0] = Frac(inputs.query[0], 1)
  /\ ret.value[3] # cross_atten(hparams, [i \in {0, 1} |-> inputs.query[3 - 1 + i]],
                                inputs.neighbors[0])[0]

----------------------------------------------------------------------------
(* CausalDepthwiseConv1D.__call__ on its own.  inputs holds a sequence,    *)
(* the layer's kernel_size and the segment positions; a call runs the      *)
(* layer on the sequence and on a second one that agrees with it up to a   *)
(* position, and ret holds both outputs.                                   *)

MaxKernel == 3        \* largest kernel_size

\* segment_pos: not given (start < 0), or the positions of a packed row
\* whose second segment starts at `start` (start 0: one segment).
PackedSegmentPos(T, start) ==
  IF start < 0 THEN None
  ELSE Some([t \in 0 .. (T - 1) |-> IF t < start THEN t ELSE t - start])

\* The sequence x with every position after t changed.
ChangedAfter(x, t) ==
  [u \in DOMAIN x |-> IF u <= t THEN x[u] ELSE (x[u] + 1) % (MaxIn + 1)]

DconvInit ==
  /\ cls = "CausalDepthwiseConv1D"
  /\ hparams \in [kernel_size : 1 .. MaxKernel]
  /\ decode_cache = <<>>
  /\ prefix_decode_cache = <<>>
  /\ fprop = <<>>
  /\ call = NoCall
  /\ theta = <<>>
  /\ ret = NoRet
  /\ \E T \in 1 .. MaxLen :
       \E x \in [0 .. (T - 1) -> InputVals], start \in (0 - 1) .. (T - 1) :
         inputs = [x |-> x, segment_pos |-> PackedSegmentPos(T, start)]

CallCausalDepthwiseConv1D ==
  /\ \E t \in DOMAIN inputs.x :
       \E other \in {ChangedAfter(inputs.x, t)} :
         /\ call' = [op |-> "__call__", inputs |-> inputs.x, other |-> other]
         /\ ret' = Returned(
              [outputs |-> CausalDepthwiseConv1DCall(hparams.kernel_size, inputs.x,
                                                     inputs.segment_pos),
               other |-> CausalDepthwiseConv1DCall(hparams.kernel_size, other,
                                                   inputs.segment_pos)])
  /\ UNCHANGED <<cls, hparams, theta, decode_cache, prefix_decode_cache, inputs, fprop>>

DconvNext ==
  \/ CallCausalDepthwiseConv1D

SpecDconv == DconvInit /\ [][DconvNext]_vars

\* C23: CausalDepthwiseConv1D.__call__ leaks no right context: on two
\* sequences that agree on all positions <= t its outputs agree on all
\* positions <= t, for every kernel_size and segment_pos; output[t] is the
\* sum over the taps i < kernel_size of dconv_i * input[t - i], a tap being
\* dropped when t - i < 0 or segment_pos[t] < i.
C23_NoRightContextLeak ==
  (call.op = "__call__" /\ cls = "CausalDepthwiseConv1D") =>
    LET T == Length(call.inputs)
        kept(t, i) == /\ t - i >= 0
                      /\ inputs.segment_pos = None \/ inputs.segment_pos.value[t] >= i
        taps(x, t) == [i \in 0 .. (hparams.kernel_size - 1) |->
                         IF kept(t, i) THEN dconv(i) * x[t - i] ELSE 0]
    IN  /\ \A t \in 0 .. (T - 1) :
             (\A u \in 0 .. t : call.inputs[u] = call.other[u])
               => \A u \in 0 .. t : ret.value.outputs[u] = ret.value.other[u]
        /\ \A t \in 0 .. (T - 1) :
             /\ ret.value.outputs[t] = SumRange(taps(call.inputs, t), 0, hparams.kernel_size)
             /\ ret.value.other[t] = SumRange(taps(call.other, t), 0, hparams.kernel_size)

\* C23 witness: a layer with more than one tap ran on two sequences that
\* agree on the first two positions and differ on the third; the outputs
\* agree on the first two and differ on the third, and the segment
\* positions dropped a tap that lies inside the sequence.
C23_Witness ==
  /\ call.op = "__call__" /\ cls = "CausalDepthwiseConv1D"
  /\ hparams.kernel_size > 1
  /\ Length(call.inputs) = 3
  /\ call.inputs[0] = call.other[0] /\ call.inputs[1] = call.other[1]
  /\ call.inputs[2] # call.other[2]
  /\ ret.value.outputs[1] = ret.value.other[1]
  /\ ret.value.outputs[2] # ret.value.other[2]
  /\ inputs.segment_pos # None
  /\ inputs.segment_pos.value[1] = 0
  /\ call.inputs[0] # 0
  /\ ret.value.outputs[1] = dconv(0) * call.inputs[1]

----------------------------------------------------------------------------
(* _dot_atten with the batch axis kept: query, key and value are indexed   *)
(* [batch][time], atten_mask is a tensor of rank 4.  inputs holds the      *)
(* batch size, the sequence length and the seed of the rows.               *)

\* The asserts of _dot_atten on atten_mask, for b rows, t queries and s
\* keys: the name of the error they raise, or "None".
MaskShapeError(shape, b, t, s) ==
  IF Len(shape) # 4 THEN "AssertionError"
  ELSE IF shape[2] # 1 \/ shape[4] # s THEN "AssertionError"
  ELSE IF shape[3] \notin {1, t} THEN "AssertionError"
  ELSE IF shape[1] \notin {1, b} THEN "AssertionError"
  ELSE "None"

\* The rows of atten_mask that broadcasting gives the batch row bi.
MaskRows(atten_mask, bi) ==
  [i \in 0 .. (atten_mask.shape[3] - 1) |-> [j \in 0 .. (atten_mask.shape[4] - 1) |->
     atten_mask.data[<<IF atten_mask.shape[1] = 1 THEN 0 ELSE bi, 0, i, j>>]]]

\* DotProductAttention._dot_atten on a batch.
BatchedDotAtten(hp, query, key, value, atten_mask) ==
  LET b == Length(key)
      s == Length(key[0])
      t == Length(query[0])
      err == MaskShapeError(atten_mask.shape, b, t, s)
  IN  IF err # "None" THEN Raised(err)
      ELSE Returned([bi \in 0 .. (b - 1) |->
             DotAtten(hp, query[bi], key[bi], value[bi], MaskRows(atten_mask, bi))])

\* jnp.reshape accepts a new shape only if it has as many elements.
ReshapeFits(shape, newshape) == Product(shape) = Product(newshape)

\* LocalSelfAttention._dot_atten on a batch: the mask is cut into block
\* contexts for the rows it has and then reshaped to the batch size.
BatchedLocalDotAtten(hp, query, key, value, atten_mask, relative_bias) ==
  LET b == Length(key)
      s == Length(key[0])
      t == Length(query[0])
      err == MaskShapeError(atten_mask.shape, b, t, s)
  IN  IF relative_bias # None THEN Raised("NotImplementedError")
      ELSE IF err # "None" THEN Raised(err)
      ELSE IF hp.block_size = None THEN Raised("TypeError")
      ELSE IF ~BlockContextArgsOk(hp.block_size.value, hp.left_context, hp.right_context)
      THEN Raised("ValueError")
      ELSE
      LET w == hp.block_size.value
          u == (s + w - 1) \div w
          c == w + (hp.left_context - 1) + hp.right_context
          mb == atten_mask.shape[1]
          fits == IF atten_mask.shape[3] = 1
                  THEN ReshapeFits(<<mb, u, c>>, <<b, 1, u, 1, c>>)
                  ELSE ReshapeFits(<<mb, u, w, atten_mask.shape[4]>>, <<b * u * w, t>>)
      IN  IF ~fits THEN Raised("TypeError")
          ELSE Returned([bi \in 0 .. (b - 1) |->
                 LocalDotAtten(hp, query[bi], key[bi], value[bi],
                               MaskRows(atten_mask, bi), None).value.encoded])

\* The masks handed in: of the given shape, forbidding the last key to the
\* odd batch rows.
ShapedMask(shape) ==
  [shape |-> shape,
   data |-> [i \in Idx(shape) |->
               IF i[1] % 2 = 1 /\ i[4] = shape[4] - 1 THEN LargeNegative ELSE 0]]

MaskShapeInit ==
  /\ cls \in {"DotProductAttention", "LocalSelfAttention"}
  /\ hparams \in (IF cls = "LocalSelfAttention"
                  THEN {hp \in LocalHParamsSet :
                          /\ hp.atten_logit_cap = 0
                          /\ BlockContextArgsOk(hp.block_size.value, hp.left_context,
                                                hp.right_context)}
                  ELSE {hp \in HParamsSet :
                          /\ ~hp.dconv_qkv /\ ~hp.use_rotary_position_emb /\ ~hp.combine_qkv
                          /\ hp.atten_logit_cap = 0})
  /\ decode_cache = <<>>
  /\ prefix_decode_cache = <<>>
  /\ fprop = <<>>
  /\ call = NoCall
  /\ theta = <<>>
  /\ ret = NoRet
  /\ inputs \in [seed : InputVals, prompt_length : 2 .. MaxLen, batch : 1 .. 2]

\* The projected rows of the batch: row bi is the prompt of seed + bi.
BatchProj ==
  [bi \in 0 .. (inputs.batch - 1) |->
     LET x == Prompt(inputs.seed + bi, inputs.prompt_length)
     IN  [t \in DOMAIN x |-> ProjQKV(hparams, x[t])]]

\* _dot_atten(query, key, value, atten_mask) on the projected batch with a
\* mask of any of the shapes [1..B+1, 1, 1..T+1, S-1..S+1].
CallBatchedDotAtten ==
  /\ \E mb \in 1 .. (inputs.batch + 1), mt \in 1 .. (inputs.prompt_length + 1),
        ms \in (inputs.prompt_length - 1) .. (inputs.prompt_length + 1) :
       LET proj == BatchProj
           query == [bi \in DOMAIN proj |-> [t \in DOMAIN proj[bi] |-> proj[bi][t].query]]
           key == [bi \in DOMAIN proj |-> [t \in DOMAIN proj[bi] |-> proj[bi][t].key]]
           value == [bi \in DOMAIN proj |-> [t \in DOMAIN proj[bi] |-> proj[bi][t].value]]
           atten_mask == ShapedMask(<<mb, 1, mt, ms>>)
       IN  /\ call' = [op |-> "_dot_atten", query |-> query, key |-> key, value |-> value,
                       atten_mask |-> atten_mask]
           /\ ret' = IF cls = "LocalSelfAttention"
                     THEN BatchedLocalDotAtten(hparams, query, key, value, atten_mask, None)
                     ELSE BatchedDotAtten(hparams, query, key, value, atten_mask)
  /\ UNCHANGED <<cls, hparams, theta, decode_cache, prefix_decode_cache, inputs, fprop>>

MaskShapeNext ==
  \/ CallBatchedDotAtten

SpecMaskShape == MaskShapeInit /\ [][MaskShapeNext]_vars

\* C24: DotProductAttention._dot_atten and LocalSelfAttention._dot_atten
\* accept every atten_mask of shape [1 or B, 1, 1 or T, S], a batch or query
\* axis of size 1 standing for every batch row or query, and reject with an
\* assertion failure every mask whose last axis is not S.
C24_MaskShapeContract ==
  call.op = "_dot_atten" =>
    LET B == inputs.batch
        T == inputs.prompt_length
        shape == call.atten_mask.shape
    IN  /\ shape[4] # T => ret = Raised("AssertionError")
        /\ (shape[1] \in {1, B} /\ shape[3] \in {1, T} /\ shape[4] = T) =>
             /\ ret.kind = "value"
             /\ DOMAIN ret.value = 0 .. (B - 1)
             /\ \A bi \in 0 .. (B - 1) : DOMAIN ret.value[bi] = 0 .. (T - 1)

----------------------------------------------------------------------------
(* _extract_block_context as a function of its arguments.  inputs holds    *)
(* the row x (distinct entries) and padding_val, hparams the block_size    *)
(* and the two contexts.                                                   *)

BlockContextInit ==
  /\ cls = "_extract_block_context"
  /\ hparams \in [block_size : 0 .. (MaxBlock + 1),
                  left_context : 1 .. (MaxContext + 2),
                  right_context : 0 .. (MaxContext + 1)]
  /\ decode_cache = <<>>
  /\ prefix_decode_cache = <<>>
  /\ fprop = <<>>
  /\ call = NoCall
  /\ theta = <<>>
  /\ ret = NoRet
  /\ \E seed \in InputVals, T \in 1 .. (MaxLen + 1) :
       inputs = [x |-> Array([t \in 0 .. (T - 1) |-> 10 * (seed + 1) + t])]

\* _extract_block_context(x, block_size, left_context, right_context,
\* padding_val).
CallExtractBlockContext ==
  /\ \E padding_val \in {0, LargeNegative} :
       /\ call' = [op |-> "_extract_block_context", x |-> inputs.x,
                   padding_val |-> padding_val]
       /\ ret' = IF BlockContextArgsOk(hparams.block_size, hparams.left_context,
                                       hparams.right_context)
                 THEN Returned(ExtractBlockContext(inputs.x, hparams.block_size,
                                                   hparams.left_context,
                                                   hparams.right_context, padding_val))
                 ELSE Raised("ValueError")
  /\ UNCHANGED <<cls, hparams, theta, decode_cache, prefix_decode_cache, inputs, fprop>>

\* _convert_to_block(x, block_size, padding_val).
CallConvertToBlock ==
  /\ \E padding_val \in {0, LargeNegative} :
       /\ call' = [op |-> "_convert_to_block", x |-> inputs.x,
                   padding_val |-> padding_val]
       /\ ret' = IF hparams.block_size < 1 THEN Raised("ValueError")
                 ELSE Returned(ConvertToBlock(inputs.x, hparams.block_size, padding_val))
  /\ UNCHANGED <<cls, hparams, theta, decode_cache, prefix_decode_cache, inputs, fprop>>

BlockContextNext ==
  \/ CallExtractBlockContext
  \/ CallConvertToBlock

SpecBlockContext == BlockContextInit /\ [][BlockContextNext]_vars

\* C26: for every length T, block_size W, left_context L and right_context R
\* that pass the checks, _extract_block_context returns ceil(T / W) block
\* contexts of W + L - 1 + R slots, and slot j of block i holds x[p] whenever
\* p = i * W - (L - 1) + j lies in [0, T).
C26_BlockContextAlignment ==
  (/\ call.op = "_extract_block_context"
   /\ BlockContextArgsOk(hparams.block_size, hparams.left_context,
                         hparams.right_context)) =>
    LET T == Length(call.x)
        W == hparams.block_size
        L == hparams.left_context
        R == hparams.right_context
    IN  /\ ret.kind = "value"
        /\ DOMAIN ret.value = 0 .. ((T + W - 1) \div W - 1)
        /\ \A i \in DOMAIN ret.value :
             /\ DOMAIN ret.value[i] = 0 .. (W + L - 1 + R - 1)
             /\ \A j \in DOMAIN ret.value[i] :
                  LET p == i * W - (L - 1) + j
                  IN  (0 <= p /\ p < T) => ret.value[i][j] = call.x[p]

----------------------------------------------------------------------------
(* The LoRA layers.  theta holds the layer's 'params' variables by name,   *)
(* each a tensor; hparams the dimensions of the layer.  Weights take the   *)
(* values 0 .. MaxIn.                                                      *)

MaxDim == 2           \* largest input_dim, num_heads, dim_per_head, output_dims
MaxRank == 2          \* largest LoRA rank

LoraClasses == {"LoraLinear", "LoraAttentionProjection", "LoraCombinedQKVProjection"}

\* The HParams of a LoRA layer that decide the shapes of its variables.
LoraHParams(c) ==
  IF c = "LoraLinear"
  THEN [input_dims : 1 .. MaxDim, output_dims : 1 .. MaxDim, rank : 1 .. MaxRank]
  ELSE IF c = "LoraAttentionProjection"
  THEN [input_dim : 1 .. MaxDim, num_heads : 1 .. MaxDim, dim_per_head : 1 .. MaxDim,
        rank : 1 .. MaxRank, attention_combine_dims : BOOLEAN,
        is_output_projection : BOOLEAN, use_nhd_shape : BOOLEAN]
  ELSE [input_dim : 1 .. MaxDim, num_heads : 1 .. MaxDim, dim_per_head : 1 .. MaxDim,
        rank : 1 .. MaxRank, attention_combine_dims : BOOLEAN]

\* The row-major position of an index in a tensor of the given shape.
RECURSIVE FlatIndex(_, _)
FlatIndex(shape, idx) ==
  IF shape = <<>> THEN 0
  ELSE Head(idx) * Product(Tail(shape)) + FlatIndex(Tail(shape), Tail(idx))

\* The index at a row-major position.
RECURSIVE UnflatIndex(_, _)
UnflatIndex(shape, k) ==
  IF shape = <<>> THEN <<>>
  ELSE <<k \div Product(Tail(shape))>> \o UnflatIndex(Tail(shape), k % Product(Tail(shape)))

\* jnp.reshape of a tensor whose size fits the new shape.
Reshape(x, newshape) ==
  [shape |-> newshape,
   data |-> Array([i \in Idx(newshape) |->
              x.data[UnflatIndex(x.shape, FlatIndex(newshape, i))]])]

\* A weight as its initialiser leaves it: entries in 0 .. MaxIn.
InitWeight(shape, seed) ==
  [shape |-> shape,
   data |-> Array([i \in Idx(shape) |-> (seed + FlatIndex(shape, i)) % (MaxIn + 1)])]

\* The shape of the head axes of a projection weight.
HdShape(hp) ==
  IF hp.attention_combine_dims THEN <<hp.num_heads * hp.dim_per_head>>
  ELSE <<hp.num_heads, hp.dim_per_head>>

\* The variables super().setup() creates: 'w', and 'b' when use_bias (which
\* attention_combine_dims forbids).
BaseVariables(c, hp, seed) ==
  IF c = "LoraLinear"
  THEN [k \in {"w"} |-> InitWeight(<<hp.input_dims, hp.output_dims>>, seed)]
  ELSE IF c = "LoraAttentionProjection"
  THEN LET pc_shape == IF hp.is_output_projection /\ hp.use_nhd_shape
                       THEN HdShape(hp) \o <<hp.input_dim>>
                       ELSE <<hp.input_dim>> \o HdShape(hp)
           pc_bias == IF hp.is_output_projection THEN <<hp.input_dim>>
                      ELSE <<hp.num_heads, hp.dim_per_head>>
       IN  IF hp.attention_combine_dims
           THEN [k \in {"w"} |-> InitWeight(pc_shape, seed)]
           ELSE [k \in {"w", "b"} |-> IF k = "w" THEN InitWeight(pc_shape, seed)
                                      ELSE Zeros(pc_bias)]
  ELSE LET pc_shape == <<3, hp.input_dim>> \o HdShape(hp)
       IN  IF hp.attention_combine_dims
           THEN [k \in {"w"} |-> InitWeight(pc_shape, seed)]
           ELSE [k \in {"w", "b"} |-> IF k = "w" THEN InitWeight(pc_shape, seed)
                                      ELSE Zeros(<<3>> \o HdShape(hp))]

\* The shapes of lora_a and lora_b that setup() declares.
LoraShapes(c, hp) ==
  IF c = "LoraLinear"
  THEN [lora_a |-> <<hp.input_dims, hp.rank>>, lora_b |-> <<hp.output_dims, hp.rank>>]
  ELSE IF c = "LoraAttentionProjection"
  THEN [lora_a |-> <<hp.input_dim, hp.rank>>,
        lora_b |-> <<hp.dim_per_head * hp.num_heads, hp.rank>>]
  ELSE [lora_a |-> <<3, hp.input_dim, hp.rank>>,
        lora_b |-> <<3, hp.input_dim, hp.rank>>]

\* The variables after setup(): those of the base layer, lora_a as its
\* initialiser leaves it and lora_b zero.
Setup(c, hp, seed) ==
  LET shapes == LoraShapes(c, hp)
  IN  BaseVariables(c, hp, seed)
        @@ [k \in {"lora_a", "lora_b"} |->
              IF k = "lora_a" THEN InitWeight(shapes.lora_a, seed + 1)
              ELSE Zeros(shapes.lora_b)]

\* einsum("...dr,...nr->...dn", lora_a, lora_b)
LoraEinsum(lora_a, lora_b) ==
  LET lead == SubSeq(lora_a.shape, 1, Len(lora_a.shape) - 2)
      d == lora_a.shape[Len(lora_a.shape) - 1]
      r == lora_a.shape[Len(lora_a.shape)]
      n == lora_b.shape[Len(lora_b.shape) - 1]
      shape == lead \o <<d, n>>
  IN  [shape |-> shape,
       data |-> Array([i \in Idx(shape) |->
                  LET l == SubSeq(i, 1, Len(lead))
                      prod == [q \in 0 .. (r - 1) |->
                                 lora_a.data[l \o <<i[Len(lead) + 1], q>>]
                                   * lora_b.data[l \o <<i[Len(lead) + 2], q>>]]
                  IN  SumRange(prod, 0, r)])]

\* LoraTheta._lora_initialized
lora_initialized == {"lora_a", "lora_b"} \subseteq DOMAIN theta

\* LoraTheta._lorafy_var
lorafy_var(var) ==
  LET new_var == LoraEinsum(theta["lora_a"], theta["lora_b"])
  IN  IF ~ReshapeFits(new_var.shape, var.shape) THEN Raised("TypeError")
      ELSE LET reshaped == Reshape(new_var, var.shape)
           IN  Returned([shape |-> var.shape,
                         data |-> Array([i \in Idx(var.shape) |->
                                    reshaped.data[i] + var.data[i]])])

\* LoraTheta.__getattr__ and LoraTheta.__getitem__ (the same body).
LoraThetaGet(k) ==
  LET var == theta[k]
  IN  IF ~lora_initialized THEN Returned(var)
      ELSE IF k = "w" THEN lorafy_var(var)
      ELSE Returned(var)

\* The layer after setup(), or bound to the variables of its base layer
\* alone.
LoraInit ==
  /\ cls \in LoraClasses
  /\ hparams \in LoraHParams(cls)
  /\ decode_cache = <<>>
  /\ prefix_decode_cache = <<>>
  /\ fprop = <<>>
  /\ call = NoCall
  /\ ret = NoRet
  /\ inputs \in [seed : InputVals]
  /\ theta \in {Setup(cls, hparams, inputs.seed), BaseVariables(cls, hparams, inputs.seed)}

\* A training step: lora_b takes new values.
TrainLora ==
  /\ lora_initialized
  /\ \E seed \in InputVals :
       theta' = [theta EXCEPT !["lora_b"] = InitWeight(theta["lora_b"].shape, seed)]
  /\ call' = [op |-> "train"]
  /\ ret' = NoRet
  /\ UNCHANGED <<cls, hparams, decode_cache, prefix_decode_cache, inputs, fprop>>

\* theta.k
CallGetattr ==
  /\ \E k \in DOMAIN theta :
       /\ call' = [op |-> "__getattr__", k |-> k]
       /\ ret' = LoraThetaGet(k)
  /\ UNCHANGED <<cls, hparams, theta, decode_cache, prefix_decode_cache, inputs, fprop>>

\* theta[k]
CallGetitem ==
  /\ \E k \in DOMAIN theta :
       /\ call' = [op |-> "__getitem__", k |-> k]
       /\ ret' = LoraThetaGet(k)
  /\ UNCHANGED <<cls, hparams, theta, decode_cache, prefix_decode_cache, inputs, fprop>>

LoraNext ==
  \/ TrainLora
  \/ CallGetattr
  \/ CallGetitem

SpecLora == LoraInit /\ [][LoraNext]_vars

\* C27: on every LoRA layer and configuration, reading 'w' by attribute or
\* by item once lora_a and lora_b exist returns the stored w plus the product
\* of lora_a and lora_b reshaped to w's shape, the product having as many
\* elements as w; any other read returns the stored tensor; and while lora_b
\* is zero the composed weight equals the stored w.
C27_LoraComposition ==
  call.op \in {"__getattr__", "__getitem__"} =>
    IF call.k = "w" /\ lora_initialized
    THEN LET w == theta["w"]
             product == LoraEinsum(theta["lora_a"], theta["lora_b"])
         IN  /\ Product(product.shape) = Product(w.shape)
             /\ ret.kind = "value"
             /\ ret.value.shape = w.shape
             /\ \A i \in Idx(w.shape) :
                  ret.value.data[i]
                    = w.data[i] + product.data[UnflatIndex(product.shape,
                                                           FlatIndex(w.shape, i))]
             /\ theta["lora_b"] = Zeros(theta["lora_b"].shape) => ret.value = w
    ELSE ret = Returned(theta[call.k])

----------------------------------------------------------------------------
(* The decode states of __call__ and of extend_step.  inputs is the input  *)
(* sequence; decode_cache is empty until a __call__ with a mutable         *)
(* DECODE_CACHE fills it.                                                  *)

StateHParamsSet ==
  [dconv_qkv : BOOLEAN, use_rotary_position_emb : BOOLEAN, combine_qkv : {FALSE},
   atten_logit_cap : {0}, ngrammer_tpl : {"None", "VQNgrammer"}, decode_cache : BOOLEAN]

\* The decode states extend_step extends, each read through
\* get_decode_state first.
ExtendStepNames(hp) ==
  LET dconv_names == IF hp.dconv_qkv
                     THEN {"query_state", "query_post_dconv", "key_post_dconv", "value_post_dconv"}
                     ELSE {}
      rotary_names == IF hp.use_rotary_position_emb THEN {"key_post_rotary_pos_emb"} ELSE {}
      ngram_names == IF hp.ngrammer_tpl # "None" THEN {"encoded_pre_ngrammer"} ELSE {}
  IN  {"key_state", "value_state"} \cup dconv_names \cup rotary_names \cup ngram_names

StateNamesInit ==
  /\ cls = "DotProductAttention"
  /\ hparams \in StateHParamsSet
  /\ decode_cache = <<>>
  /\ prefix_decode_cache = <<>>
  /\ fprop = <<>>
  /\ theta = <<>>
  /\ call = NoCall
  /\ ret = NoRet
  /\ \E seed \in InputVals, T \in 1 .. MaxLen : inputs = Prompt(seed, T)

\* __call__ on the input sequence, with DECODE_CACHE mutable or not:
\* _fprop_update_decode_state writes only when it is mutable and
\* hparams.decode_cache is set.
CallFprop ==
  /\ \E mutable \in BOOLEAN :
       \E r \in {Call(hparams, inputs, causal_mask(Length(inputs)), None)} :
         /\ call' = [op |-> "__call__", mutable |-> mutable]
         /\ ret' = Returned(r.encoded)
         /\ decode_cache' = IF mutable /\ hparams.decode_cache
                            THEN r.states @@ decode_cache
                            ELSE decode_cache
  /\ UNCHANGED <<cls, hparams, theta, prefix_decode_cache, inputs, fprop>>

\* extend_step at the next time step on the cache as it is: a state that is
\* missing (the cache is empty or complete) fails its `state is not None`.
CallExtendStepOnCache ==
  LET t == NextTimeStep
      T == Length(inputs)
  IN  /\ t < T
      /\ IF ExtendStepNames(hparams) \subseteq DOMAIN decode_cache
         THEN \E r \in {ExtendStep(hparams, decode_cache, inputs[t], causal_mask(T)[t],
                                   t, None)} :
                /\ decode_cache' = r.cache
                /\ ret' = Returned(r.encoded)
                /\ call' = [op |-> "extend_step", time_step |-> t,
                            key_state_name |-> r.key_state_name,
                            value_state_name |-> r.value_state_name]
         ELSE /\ decode_cache' = decode_cache
              /\ ret' = Raised("AssertionError")
              /\ call' = [op |-> "extend_step", time_step |-> t,
                          key_state_name |-> "", value_state_name |-> ""]
      /\ UNCHANGED <<cls, hparams, theta, prefix_decode_cache, inputs, fprop>>

StateNamesNext ==
  \/ CallFprop
  \/ CallExtendStepOnCache

SpecStateNames == StateNamesInit /\ [][StateNamesNext]_vars

\* C28: in every configuration of dconv_qkv, use_rotary_position_emb and
\* ngrammer, a __call__ with DECODE_CACHE mutable and decode_cache set leaves
\* exactly the states extend_step reads or writes, the most-processed key
\* and value states holding the tensors __call__ attended over; any other
\* __call__ leaves the cache as it was; and extend_step on a filled cache
\* succeeds, attends over those most-processed states and adds no state.
C28_CallWritesWhatExtendStepNeeds ==
  [][LET key_name == IF hparams.use_rotary_position_emb THEN "key_post_rotary_pos_emb"
                     ELSE IF hparams.dconv_qkv THEN "key_post_dconv" ELSE "key_state"
         value_name == IF hparams.dconv_qkv THEN "value_post_dconv" ELSE "value_state"
         T == Length(inputs)
     IN  /\ call'.op = "__call__" =>
              IF call'.mutable /\ hparams.decode_cache
              THEN LET r == Call(hparams, inputs, causal_mask(T), None)
                   IN  /\ DOMAIN decode_cache' = ExtendStepNames(hparams)
                       /\ \A t \in 0 .. (T - 1) :
                            /\ decode_cache'[key_name].data[<<t>>] = r.key[t]
                            /\ decode_cache'[value_name].data[<<t>>] = r.value[t]
              ELSE decode_cache' = decode_cache
         /\ (call'.op = "extend_step" /\ DOMAIN decode_cache # {}) =>
              /\ ret'.kind = "value"
              /\ call'.key_state_name = key_name
              /\ call'.value_state_name = value_name
              /\ DOMAIN decode_cache' = DOMAIN decode_cache]_vars

C28_Witness ==
  /\ call.op = "extend_step"
  /\ call.time_step >= 1
  /\ ret.kind = "value"
  /\ hparams.dconv_qkv /\ hparams.use_rotary_position_emb
  /\ hparams.ngrammer_tpl # "None"
  /\ DOMAIN decode_cache = ExtendStepNames(hparams)

----------------------------------------------------------------------------
(* transform_decode_state.  The batch axis is dropped, so the axis the     *)
(* source numbers k >= 1 is axis k of a state's shape here.                *)

\* A transform_fn that depends on both of its axis arguments: it rolls the
\* state by one along time_dim (batch_dim names the dropped batch axis).
TransformFn(state, batch_dim, time_dim) ==
  [shape |-> state.shape,
   data |-> Array([i \in Idx(state.shape) |->
              state.data[[i EXCEPT ![time_dim] = (@ - 1) % state.shape[time_dim]]]])]

\* DotProductAttention.transform_decode_state, which
\* DotProductAttentionWithLPB inherits: the arguments transform_fn is given
\* and the cache it leaves.
TransformDecodeState(cache) ==
  LET batch_dim == 0
      time_dim == 1
  IN  [batch_dim |-> batch_dim, time_dim |-> time_dim,
       cache |-> [name \in DOMAIN cache |-> TransformFn(cache[name], batch_dim, time_dim)]]

TransformInit ==
  /\ cls \in {"DotProductAttention", "DotProductAttentionWithLPB"}
  /\ hparams \in {hp \in HParamsSet :
                    ~hp.combine_qkv /\ ~hp.dconv_qkv /\ hp.atten_logit_cap = 0}
  /\ prefix_decode_cache = [key \in {} |-> Zeros(<<1>>)]
  /\ call = NoCall
  /\ theta = <<>>
  /\ ret = NoRet
  /\ \E T \in 2 .. (MaxSeq - 1), seed \in {0, MaxIn} :
       /\ inputs = [seed |-> seed, prompt_length |-> T, broadcasts |-> <<>>]
       /\ decode_cache = Call(hparams, Prompt(seed, T), causal_mask(T), None).states
       /\ fprop = [idx \in Idx(<<>>) |-> [cache |-> decode_cache, encoded |-> NoRet]]

\* lazy_broadcast_prefix on a DotProductAttentionWithLPB.
CallLazyBroadcastPrefixOfLPB ==
  /\ cls = "DotProductAttentionWithLPB"
  /\ CallLazyBroadcastPrefix

\* extend_step on a DotProductAttentionWithLPB.
CallExtendStepOfLPB ==
  /\ cls = "DotProductAttentionWithLPB"
  /\ CallLPBExtendStep

\* transform_decode_state(transform_fn)
CallTransformDecodeState ==
  /\ \E r \in {TransformDecodeState(decode_cache)} :
       /\ call' = [op |-> "transform_decode_state", batch_dim |-> r.batch_dim,
                   time_dim |-> r.time_dim]
       /\ decode_cache' = r.cache
  /\ ret' = Returned("None")
  /\ UNCHANGED <<cls, hparams, theta, prefix_decode_cache, inputs, fprop>>

TransformNext ==
  \/ CallLazyBroadcastPrefixOfLPB
  \/ CallExtendStepOfLPB
  \/ CallTransformDecodeState

SpecTransform == TransformInit /\ [][TransformNext]_vars

\* C29: on a DotProductAttention, and on a DotProductAttentionWithLPB after
\* any number of lazy_broadcast_prefix calls, transform_decode_state gives
\* transform_fn every decode state with batch_dim 0 and time_dim the axis
\* extend_step writes (1 plus the number of broadcasts), and changes no
\* prefix chunk.
C29_TransformAlongExtendAxis ==
  [][call'.op = "transform_decode_state" =>
       LET time_dim == 1 + BroadcastPrefixesCount(prefix_decode_cache)
       IN  /\ call'.batch_dim = 0
           /\ call'.time_dim = time_dim
           /\ DOMAIN decode_cache' = DOMAIN decode_cache
           /\ \A name \in DOMAIN decode_cache :
                decode_cache'[name] = TransformFn(decode_cache[name], 0, time_dim)
           /\ prefix_decode_cache' = prefix_decode_cache]_vars

----------------------------------------------------------------------------
(* The depth-wise convolution of DotProductAttentionWithLPB.extend_step    *)
(* across prefix chunks.                                                   *)

\* The logical sequence of the sample idx from chunk_id on: the shared
\* prefix chunks in order, then the live suffix.
RECURSIVE LogicalState(_, _, _, _, _)
LogicalState(cache, pfx, state_name, idx, chunk_id) ==
  IF chunk_id >= BroadcastPrefixesCount(pfx) THEN Row(cache[state_name], idx)
  ELSE Concatenate(ChunkRow(cache, pfx, state_name, chunk_id, idx),
                   LogicalState(cache, pfx, state_name, idx, chunk_id + 1))

\* C30: with dconv_qkv on a DotProductAttentionWithLPB, after any number of
\* broadcasts, _left_concat_decode_state gives every sample the last
\* min(kernel_size - 1, prefix length) prefix positions followed by the live
\* suffix in logical order, the step index time_step - prefix_length + window
\* addresses logical position time_step, and the convolution of
\* extend_step(time_step) is the sum over 0 <= i < kernel_size with
\* time_step - i >= 0 of dconv_i times logical position time_step - i.
C30_DconvAcrossPrefixChunks ==
  (/\ cls = "DotProductAttentionWithLPB" /\ call.op = "extend_step"
   /\ hparams.dconv_qkv /\ ret.kind = "value") =>
    LET pfx == prefix_decode_cache
        prefix_length == BroadcastPrefixLength(pfx)
        window == Min(dconv_kernel_size - 1, prefix_length)
        t == call.time_step
        samples == Idx(SampleDims(inputs.broadcasts))
        post == [query_state |-> "query_post_dconv", key_state |-> "key_post_dconv",
                 value_state |-> "value_post_dconv"]
    IN  \A idx \in samples : \A state_name \in DOMAIN post :
          LET logical == LogicalState(decode_cache, pfx, state_name, idx, 0)
              live == Row(decode_cache[state_name], idx)
              concat == LeftConcatDecodeState(decode_cache, pfx, state_name, window, idx)
              taps == [i \in 0 .. (dconv_kernel_size - 1) |->
                         IF t - i >= 0 THEN dconv(i) * logical[t - i] ELSE 0]
          IN  /\ Length(concat) = window + Length(live)
              /\ \A j \in DOMAIN concat : concat[j] = logical[prefix_length - window + j]
              /\ concat[t - prefix_length + window] = logical[t]
              /\ Row(decode_cache[post[state_name]], idx)[t - prefix_length]
                   = SumRange(taps, 0, dconv_kernel_size)

C30_Witness ==
  /\ cls = "DotProductAttentionWithLPB" /\ call.op = "extend_step"
  /\ hparams.dconv_qkv /\ ret.kind = "value"
  /\ BroadcastPrefixesCount(prefix_decode_cache) = 2
  /\ inputs.broadcasts[1].suffix_length = 1
  /\ inputs.broadcasts[2].num_suffix_samples = 2
  /\ call.time_step = BroadcastPrefixLength(prefix_decode_cache)
  /\ call.time_step >= dconv_kernel_size - 1
  /\ \A i \in 0 .. (dconv_kernel_size - 1) :
       LogicalState(decode_cache, prefix_decode_cache, "key_state", <<0, 1>>, 0)
         [call.time_step - i] # 0
============================================================================
